---- MODULE Spec2Model ----
(***************************************************************************)
(* Model of the fetch-extract-analyze-aggregate pipeline of the LexiOne    *)
(* Competition Monitor: the response validator (_parse_json_response in    *)
(* app/openai_service.py) and the batch orchestrator (endpoint_parse in    *)
(* app/api_server.py with parse_competitors_list in                        *)
(* app/parsing_service.py).                                                *)
(*                                                                         *)
(* Strings of the program are written in ASCII here; the Russian literals  *)
(* of the source are transliterated.                                       *)
(***************************************************************************)
EXTENDS Integers, Sequences, FiniteSets, TLC

(***************************************************************************)
(* Bounds of the model.                                                    *)
(***************************************************************************)
\* longest raw model output, in pieces (see Pieces)
MaxPieces == 6
\* longest raw model output whose JSON document ranges over every value of Docs
MaxWrap == 3
\* most metric keys in a metrics mapping supplied by the model
MaxMetricKeys == 3
\* characters in one run of prose (piece "X") and in one JSON document (piece "J")
XLen == 200
JLen == 150
\* longest competitor list of a batch request
MaxCompetitors == 3

(***************************************************************************)
(* Program constants.                                                      *)
(***************************************************************************)
\* raw_content[:500]
SummaryMax == 500
\* "score": 5 of _get_default_metrics
DefaultScore == 5

(***************************************************************************)
(* Text.  A string is a sequence of pieces, each a fixed run of            *)
(* characters:                                                             *)
(*   "F" = three backquotes (a code-fence marker)      "T" = the word json *)
(*   "N" = one newline                                                     *)
(*   "J" = the text of one JSON document, on one line                      *)
(*   "X" = a run of XLen characters of prose that is no JSON               *)
(* No piece is a prefix of another, so startswith, split, strip and        *)
(* json.loads are exact on pieces.  A slice of a string is a sequence of   *)
(* <<piece, number of characters kept>>.                                   *)
(***************************************************************************)
Pieces == {"F", "T", "N", "J", "X"}

PieceLen(p) ==
    CASE p = "F" -> 3
      [] p = "T" -> 4
      [] p = "N" -> 1
      [] p = "J" -> JLen
      [] p = "X" -> XLen

TextsUpTo(n) == UNION {[1..k -> Pieces] : k \in 0..n}

\* str.startswith(p)
StartsWith(s, p) == Len(s) > 0 /\ s[1] = p

\* str.split("\n")
RECURSIVE Split(_)
Split(s) ==
    IF \A i \in 1..Len(s) : s[i] # "N"
    THEN <<s>>
    ELSE LET i == CHOOSE k \in 1..Len(s) :
                     s[k] = "N" /\ \A j \in 1..(k - 1) : s[j] # "N"
         IN  <<SubSeq(s, 1, i - 1)>> \o Split(SubSeq(s, i + 1, Len(s)))

\* "\n".join(lines)
RECURSIVE Join(_)
Join(lines) ==
    IF lines = <<>> THEN <<>>
    ELSE IF Len(lines) = 1 THEN lines[1]
    ELSE lines[1] \o <<"N">> \o Join(Tail(lines))

\* str.strip(): whitespace removed at both ends (the newline is the only
\* whitespace piece)
RECURSIVE Strip(_)
Strip(s) ==
    IF s = <<>> THEN s
    ELSE IF s[1] = "N" THEN Strip(Tail(s))
    ELSE IF s[Len(s)] = "N" THEN Strip(SubSeq(s, 1, Len(s) - 1))
    ELSE s

\* s[:n]
RECURSIVE Slice(_, _)
Slice(s, n) ==
    IF s = <<>> \/ n <= 0 THEN <<>>
    ELSE IF PieceLen(s[1]) <= n
         THEN <<<<s[1], PieceLen(s[1])>>>> \o Slice(Tail(s), n - PieceLen(s[1]))
         ELSE <<<<s[1], n>>>>

\* the markdown wrapper removal at the head of _parse_json_response
StripFence(content) ==
    IF StartsWith(content, "F")
    THEN LET lines == Split(content)
             kept == IF lines[Len(lines)] = <<"F">>
                     THEN SubSeq(lines, 2, Len(lines) - 1)
                     ELSE Tail(lines)
             joined == Join(kept)
         IN  IF StartsWith(joined, "T") THEN Strip(Tail(joined)) ELSE joined
    ELSE content

\* json.loads(content) succeeds: one document, whitespace allowed around it
JsonLoadsOk(content) == Strip(content) = <<"J">>

(***************************************************************************)
(* JSON values.  The document "J" denotes one value, result: an object     *)
(* with a set of top-level keys, or a value that is no object.  What the   *)
(* model wrote under a key other than metrics is passed through unread,    *)
(* so it is a fixed value here; the metrics value is read by               *)
(* _calculate_average_score and is modelled in full.                       *)
(***************************************************************************)
Sections ==
    {"company_info", "metrics", "competitive_analysis", "positioning_summary",
     "recommendations_for_user", "key_takeaways"}

MetricKeys ==
    <<"visual_design", "usability", "content_quality", "trust_signals",
      "call_to_action", "mobile_friendliness", "innovation">>

NumMetrics == Len(MetricKeys)

\* One entry of a metrics mapping, by position in MetricKeys.
\*   present: the key is in the mapping      isdict: its value is a dict
\*   hasScore: "score" in value              numeric: the score is a number
AbsentEntry ==
    [present |-> FALSE, isdict |-> FALSE, hasScore |-> FALSE, numeric |-> FALSE,
     score |-> 0, description |-> ""]

Scored(s) ==
    [present |-> TRUE, isdict |-> TRUE, hasScore |-> TRUE, numeric |-> TRUE,
     score |-> s, description |-> "model"]

\* {"description": "..."}: a dict with no score
NoScoreEntry == [Scored(0) EXCEPT !.hasScore = FALSE, !.numeric = FALSE]

\* a metric whose value is a bare number or string, not a dict
NonDictEntry == [NoScoreEntry EXCEPT !.isdict = FALSE]

\* {"score": "8"} or {"score": null}
BadScoreEntry == [Scored(0) EXCEPT !.numeric = FALSE]

ModelScores == {0, 6, 8}

ModelEntries ==
    {Scored(s) : s \in ModelScores} \cup {NoScoreEntry, NonDictEntry, BadScoreEntry}

\* a metrics value: a mapping (kind "dict") or some other JSON value
MetricsDict(items) == [kind |-> "dict", items |-> items]

NotADict(k) == [kind |-> k, items |-> [i \in 1..NumMetrics |-> AbsentEntry]]

\* the mappings with the first k metric keys, k <= MaxMetricKeys
ModelMetricsDicts ==
    UNION {
        {MetricsDict([i \in 1..NumMetrics |-> IF i <= k THEN f[i] ELSE AbsentEntry]) :
            f \in [1..k -> ModelEntries]} : k \in 0..MaxMetricKeys}

ModelMetrics == ModelMetricsDicts \cup {NotADict("null"), NotADict("array")}

CoreMetrics ==
    {MetricsDict([i \in 1..NumMetrics |-> AbsentEntry]),
     MetricsDict([i \in 1..NumMetrics |-> IF i <= 2 THEN Scored(8) ELSE AbsentEntry]),
     MetricsDict([i \in 1..NumMetrics |-> Scored(6)])}

JsonObject(has, metrics) == [kind |-> "object", has |-> has, metrics |-> metrics]

NonObject(k) == [kind |-> k, has |-> {}, metrics |-> NotADict("absent")]

NoDoc == NonObject("none")

\* the objects: every subset of the six sections with a few metrics values,
\* and every metrics value with no or all other sections
Objects ==
    {JsonObject(has, NotADict("absent")) : has \in SUBSET (Sections \ {"metrics"})}
    \cup {JsonObject(has \cup {"metrics"}, m) :
            has \in SUBSET (Sections \ {"metrics"}), m \in CoreMetrics}
    \cup {JsonObject(has, m) : has \in {{"metrics"}, Sections}, m \in ModelMetrics}

Docs ==
    Objects \cup {NonObject(k) : k \in {"null", "number", "string", "array"}}

\* the documents tried inside the longer texts
CoreDocs ==
    {JsonObject(Sections, MetricsDict([i \in 1..NumMetrics |-> Scored(6)])),
     JsonObject({}, NotADict("absent")),
     NonObject("null")}

(***************************************************************************)
(* The AnalysisRecord.  keys is the set of top-level keys of the returned  *)
(* dict; a string value is [lit, chars]: a literal of the program, or a    *)
(* slice of text.  average_score is held in tenths (47 stands for 4.7).    *)
(***************************************************************************)
Str(s) == [lit |-> s, chars |-> <<>>]

Txt(c) == [lit |-> "", chars |-> c]

ModelCompanyInfo ==
    [name |-> "name by model", tagline |-> "model", niche |-> "model",
     target_audience |-> "model", main_offer |-> "model",
     unique_selling_points |-> <<"model">>]

ModelCompetitiveAnalysis ==
    [strengths |-> <<"model">>, weaknesses |-> <<"model">>,
     opportunities |-> <<"model">>, threats |-> <<"model">>]

ModelList == <<"model">>

ModelSummary == Str("summary by model")

DefaultCompanyInfo(competitor_name) ==
    [name |-> competitor_name, tagline |-> "", niche |-> "Ne opredeleno",
     target_audience |-> "Ne opredeleno", main_offer |-> "Ne opredeleno",
     unique_selling_points |-> <<>>]

FallbackCompanyInfo(competitor_name) ==
    [name |-> competitor_name, tagline |-> "", niche |-> "Oshibka analiza",
     target_audience |-> "", main_offer |-> "", unique_selling_points |-> <<>>]

EmptyCompetitiveAnalysis ==
    [strengths |-> <<>>, weaknesses |-> <<>>, opportunities |-> <<>>, threats |-> <<>>]

DefaultSummary == Str("Analiz ne zavershyon")

NoAnswerSummary == Str("Otvet ne poluchen")

ParseErrorMarker == "Ne udalos rasparsit JSON-otvet"

DefaultEntry ==
    [present |-> TRUE, isdict |-> TRUE, hasScore |-> TRUE, numeric |-> TRUE,
     score |-> DefaultScore, description |-> "Ne oceneno"]

\* mutant: the last metric key left out of the defaults
_get_default_metrics_short ==
    MetricsDict([i \in 1..NumMetrics |-> IF i < NumMetrics THEN DefaultEntry ELSE AbsentEntry])

_get_default_metrics == MetricsDict([i \in 1..NumMetrics |-> DefaultEntry])

\* mutant: a score of 0 is taken as no score
ScoredKeysTruthy(metrics) ==
    {i \in 1..NumMetrics :
        metrics.items[i].present /\ metrics.items[i].isdict /\ metrics.items[i].hasScore
        /\ metrics.items[i].score # 0}

\* the entries _calculate_average_score appends to scores
ScoredKeys(metrics) ==
    {i \in 1..NumMetrics :
        metrics.items[i].present /\ metrics.items[i].isdict /\ metrics.items[i].hasScore}

RECURSIVE SumScores(_, _)
SumScores(metrics, keys) ==
    IF keys = {} THEN 0
    ELSE LET i == CHOOSE k \in keys : TRUE
         IN  metrics.items[i].score + SumScores(metrics, keys \ {i})

\* mutant: the mean cut to one decimal instead of rounded
RoundTenthsDown(total, n) == (10 * total) \div n

\* round(total / n, 1) in tenths.  Python rounds the double to the nearest
\* tenth, an exact tie to the even tenth; total / n is a tie only for n a
\* multiple of 4, where the quotient is exact in binary.
RoundTenths(total, n) ==
    LET q == (10 * total) \div n
        r == (10 * total) % n
    IN  IF 2 * r < n THEN q
        ELSE IF 2 * r > n THEN q + 1
        ELSE IF q % 2 = 0 THEN q ELSE q + 1

Returned(v) == [raised |-> FALSE, exc |-> "", value |-> v]

Raised(e) == [raised |-> TRUE, exc |-> e, value |-> 0]

_calculate_average_score(metrics) ==
    IF metrics.kind # "dict" THEN Raised("AttributeError")
    ELSE LET scores == ScoredKeys(metrics)
         IN  IF scores = {} THEN Returned(0)
             ELSE IF \E i \in scores : ~metrics.items[i].numeric
                  THEN Raised("TypeError")
                  ELSE Returned(RoundTenths(SumScores(metrics, scores),
                                            Cardinality(scores)))

Raise(e) == [kind |-> "raise", exc |-> e]

\* mutant: the slice used also when the content is empty
_get_fallback_result_no_placeholder(competitor_name, raw_content) ==
    [kind |-> "record",
     keys |-> Sections \cup {"average_score", "error"},
     company_info |-> FallbackCompanyInfo(competitor_name),
     metrics |-> _get_default_metrics,
     competitive_analysis |-> EmptyCompetitiveAnalysis,
     positioning_summary |-> Txt(Slice(raw_content, SummaryMax)),
     recommendations_for_user |-> <<>>,
     key_takeaways |-> <<>>,
     average_score |-> 0,
     error |-> ParseErrorMarker]

_get_fallback_result(competitor_name, raw_content) ==
    [kind |-> "record",
     keys |-> Sections \cup {"average_score", "error"},
     company_info |-> FallbackCompanyInfo(competitor_name),
     metrics |-> _get_default_metrics,
     competitive_analysis |-> EmptyCompetitiveAnalysis,
     positioning_summary |->
        IF raw_content # <<>> THEN Txt(Slice(raw_content, SummaryMax))
        ELSE NoAnswerSummary,
     recommendations_for_user |-> <<>>,
     key_takeaways |-> <<>>,
     average_score |-> 0,
     error |-> ParseErrorMarker]

\* the "if key not in result" blocks: the dict with every section present
FillDefaults(result, competitor_name) ==
    [kind |-> "record",
     keys |-> result.has \cup Sections,
     company_info |->
        IF "company_info" \notin result.has
        THEN DefaultCompanyInfo(competitor_name) ELSE ModelCompanyInfo,
     metrics |->
        IF "metrics" \notin result.has THEN _get_default_metrics ELSE result.metrics,
     competitive_analysis |->
        IF "competitive_analysis" \notin result.has
        THEN EmptyCompetitiveAnalysis ELSE ModelCompetitiveAnalysis,
     positioning_summary |->
        IF "positioning_summary" \notin result.has THEN DefaultSummary ELSE ModelSummary,
     recommendations_for_user |->
        IF "recommendations_for_user" \notin result.has THEN <<>> ELSE ModelList,
     key_takeaways |->
        IF "key_takeaways" \notin result.has THEN <<>> ELSE ModelList,
     average_score |-> 0,
     error |-> ""]

\* content: the raw model output; result: the value its JSON document denotes.
\* Only json.JSONDecodeError is caught: a value that is no object fails at
\* the first "not in" or item assignment, a metrics value that is no dict at
\* .items(), a score that is no number in sum().
_parse_json_response(content, competitor_name, result) ==
    LET stripped == StripFence(content)
    IN  IF ~JsonLoadsOk(stripped)
        THEN _get_fallback_result(competitor_name, stripped)
        ELSE IF result.kind # "object" THEN Raise("TypeError")
        ELSE LET filled == FillDefaults(result, competitor_name)
                 avg == _calculate_average_score(filled.metrics)
             IN  IF avg.raised THEN Raise(avg.exc)
                 ELSE [filled EXCEPT !.average_score = avg.value,
                                     !.keys = @ \cup {"average_score"}]

(***************************************************************************)
(* State.                                                                  *)
(***************************************************************************)
VARIABLES
    raw,              \* validate: the raw model output passed in
    competitor_name,  \* validate: the competitor name passed in
    result,           \* validate: the value json.loads returned, NoDoc if none
    out,              \* validate: what the call returned or raised
    vpc,              \* validate: "call" before the call, "return" after it
    competitors,      \* /parse: request.competitors, a list of [name, url]
    bpc,              \* /parse: the position of endpoint_parse
    pos,              \* /parse: the entry parse_competitors_list is at
    driver,           \* /parse: the browser session of parse_website
    parsed_results,   \* /parse: the list parse_competitors_list builds
    idx,              \* /parse: the item the analysis loop is at
    analysis_results, \* /parse: the list the analysis loop builds
    response,         \* /parse: what the endpoint returned
    fetch_started,    \* observer: the entries whose fetch has begun
    fetch_finished,   \* observer: the entries whose fetch has ended
    analysis_started, \* observer: the entries whose analysis has begun
    analysis_finished \* observer: the entries whose analysis has ended

\* fetchMany (parse_competitors_list called on its own) shares competitors,
\* pos, driver and parsed_results with /parse and adds:
VARIABLES
    fpc,              \* fetchMany: where parse_competitors_list / parse_website is
    save_screenshots, \* fetchMany: the save_screenshots argument
    browsers,         \* the browser processes started and not yet ended
    fetch_result,     \* parse_website: its local result dict
    fetch_raised      \* fetchMany: the exception that left it, "" if none

\* the analysis client called on its own (analyze_image, analyze_text) and
\* the single-item endpoints (/analyze-image, /analyze-text, /parse-single)
\* share response with /parse and add:
VARIABLES
    op,               \* the operation called
    apc,              \* where the operation is
    api_key,          \* OPENAI_API_KEY is configured
    valid,            \* the request passes the check of the endpoint
    image_path,       \* analyze_image: what its image_path names
    single_parsed,    \* /parse-single: what parse_website returned
    mode,             \* the analysis function running: "image" or "text"
    a_out,            \* what the analysis function returned or raised
    single_result,    \* /parse-single: its result dict
    trace             \* observer: the calls, model calls and exceptions so far

\* the start of the process (main.py, or api_server.py run as a script):
VARIABLES
    entry_point,      \* the script the process was started from
    process           \* how far the start has come

\* the pure steps of the extraction and of the formatting, called alone:
VARIABLES
    xpc,              \* the function called, "done" after it
    netloc,           \* the host of the URL, as characters
    name,             \* the name given, then the name used
    elements,         \* the trimmed text lengths of the <p> elements, in order
    paragraphs,       \* data["paragraphs"], as text lengths
    page_data,        \* the data dict handed to get_parsed_text
    text              \* what get_parsed_text returned, as lines, or raised

\* the desktop window and its analysis workers:
VARIABLES
    workers,          \* the AnalysisWorker threads started, self.worker the last
    signal_queue,     \* the finished/error signals emitted and not yet handled
    loading,          \* the progress bar is visible
    btn_parse,        \* "start analysis" is enabled
    btn_load_files,   \* "load files" is enabled
    btn_clear,        \* "clear" is enabled
    competitor_count, \* len(self.competitors)
    message           \* the last message box or result shown

vvars == <<raw, competitor_name, result, out, vpc>>

uvars == <<workers, signal_queue, loading, btn_parse, btn_load_files, btn_clear,
           competitor_count, message>>

xvars == <<xpc, netloc, name, elements, paragraphs, page_data, text>>

mvars == <<entry_point, process, xvars, uvars>>

avars ==
    <<op, apc, api_key, valid, image_path, single_parsed, mode, a_out, single_result,
      trace>>

fvars == <<fpc, save_screenshots, browsers, fetch_result, fetch_raised>>

nvars == <<fvars, avars, mvars>>

bvars ==
    <<competitors, bpc, pos, driver, parsed_results, idx, analysis_results, response,
      fetch_started, fetch_finished, analysis_started, analysis_finished>>

vars == <<vvars, bvars, nvars>>

Names == {"acme", "Neizvestnyj"}

NoOut == [kind |-> "none"]

NoReport == [present |-> FALSE, total_competitors |-> 0, successful |-> 0, results |-> <<>>]

NoResponse == [returned |-> FALSE, success |-> FALSE, error |-> "", report |-> NoReport]

\* the validator at rest, while the batch endpoint runs
ValidateIdle ==
    /\ raw = <<>>
    /\ competitor_name = "acme"
    /\ result = NoDoc
    /\ out = NoOut
    /\ vpc = "idle"

\* the batch endpoint at rest, while the validator runs
BatchIdle ==
    /\ competitors = <<>>
    /\ bpc = "idle"
    /\ pos = 0
    /\ driver = "none"
    /\ parsed_results = <<>>
    /\ idx = 0
    /\ analysis_results = <<>>
    /\ response = NoResponse
    /\ fetch_started = {}
    /\ fetch_finished = {}
    /\ analysis_started = {}
    /\ analysis_finished = {}

\* data = {} of the result dict
EmptyData == [extracted |-> FALSE, screenshot_path |-> FALSE]

\* the result dict parse_website starts from; raised_in and nav_timeout are
\* the observer's notes of the step whose exception reached the except
\* clause and of a navigation that raised
NoFetchResult ==
    [entry |-> 0, name |-> "", url |-> "", success |-> FALSE, error |-> "",
     data |-> EmptyData, raised_in |-> "", nav_timeout |-> FALSE]

\* fetchMany at rest
FetchIdle ==
    /\ fpc = "idle"
    /\ save_screenshots = FALSE
    /\ browsers = 0
    /\ fetch_result = NoFetchResult
    /\ fetch_raised = ""

\* the result dict of /parse-single before it is built
NoItem ==
    [entry |-> 0, name |-> "", url |-> "", parsing_success |-> FALSE,
     parsing_error |-> "", analysis |-> [present |-> FALSE, average_score |-> 0, error |-> ""],
     analysis_type |-> "", analysis_error |-> ""]

\* the analysis client and the single-item endpoints at rest
AnalysisIdle ==
    /\ op = "none"
    /\ apc = "idle"
    /\ api_key = TRUE
    /\ valid = TRUE
    /\ image_path = "none"
    /\ single_parsed = NoFetchResult
    /\ mode = ""
    /\ a_out = NoOut
    /\ single_result = NoItem
    /\ trace = <<>>

\* no process start is followed
StartupIdle == entry_point = "none" /\ process = "none"

\* the data dict of a failed fetch: {}
NoPageData ==
    [page_title |-> "absent", meta_description |-> "absent", headings |-> 0,
     paragraphs |-> 0, cta_buttons |-> 0, nav_links |-> 0]

\* no pure step is called
ExtractIdle ==
    /\ xpc = "idle"
    /\ netloc = <<>>
    /\ name = <<>>
    /\ elements = <<>>
    /\ paragraphs = <<>>
    /\ page_data = NoPageData
    /\ text = <<>>

\* the window is not open
UiIdle ==
    /\ workers = <<>>
    /\ signal_queue = <<>>
    /\ loading = FALSE
    /\ btn_parse = FALSE
    /\ btn_load_files = FALSE
    /\ btn_clear = FALSE
    /\ competitor_count = 0
    /\ message = ""

MoreIdle == StartupIdle /\ ExtractIdle /\ UiIdle

\* the operations added to the validator and /parse, at rest
NewIdle == FetchIdle /\ AnalysisIdle /\ MoreIdle

(***************************************************************************)
(* validate: one call of _parse_json_response.                             *)
(***************************************************************************)
\* the values the document of a raw output may denote
Denotations(r) ==
    IF ~JsonLoadsOk(StripFence(r)) THEN {NoDoc}
    ELSE IF Len(r) <= MaxWrap THEN Docs ELSE CoreDocs

ValidateInit ==
    /\ raw \in TextsUpTo(MaxPieces)
    /\ competitor_name \in Names
    /\ result = NoDoc
    /\ out = NoOut
    /\ vpc = "call"
    /\ BatchIdle
    /\ NewIdle

Validate ==
    /\ vpc = "call"
    /\ \E d \in Denotations(raw) :
          /\ result' = d
          /\ out' = _parse_json_response(raw, competitor_name, d)
    /\ vpc' = "return"
    /\ UNCHANGED <<raw, competitor_name>>
    /\ UNCHANGED bvars
    /\ UNCHANGED nvars

ValidateNext == Validate

SpecValidate == ValidateInit /\ [][ValidateNext]_vars

(***************************************************************************)
(* /parse: endpoint_parse, with parse_competitors_list and parse_website.  *)
(* endpoint_parse first fetches the whole list (parse_competitors_list),   *)
(* then analyses each parsed result, then builds and saves the report.     *)
(* The steps are cut where the program waits: at the browser session and   *)
(* at the model call.  The name parse_website derives from the URL when    *)
(* none is given is kept as the empty name here.                           *)
(***************************************************************************)
CompetitorEntries ==
    {[name |-> n, url |-> u] : n \in {"", "Acme"}, u \in {"", "https://www.acme.example"}}

CompetitorLists == UNION {[1..k -> CompetitorEntries] : k \in 0..MaxCompetitors}

\* mutant: no entry is skipped
SkipsEntryNever(competitor) == FALSE

\* "if not url: continue"
SkipsEntry(competitor) == competitor.url = ""

\* mutant: the new item put at the head of the list
ListPrepend(list, item) == <<item>> \o list

\* results.append(result) of parse_competitors_list
ListAppend(list, item) == Append(list, item)

\* mutant: an item whose analysis raised is left out
AppendAnalysisDropsFailed(list, item) ==
    IF item.analysis_error # "" THEN list ELSE Append(list, item)

\* analysis_results.append(competitor_result) of endpoint_parse
AppendAnalysis(list, item) == Append(list, item)

\* the dict parse_website returns; entry is the observer's note of the
\* position of the competitor in the request
ParseOutcome(entry, competitor, success, error) ==
    [entry |-> entry, name |-> competitor.name, url |-> competitor.url,
     success |-> success, error |-> error]

NoAnalysis == [present |-> FALSE, average_score |-> 0, error |-> ""]

\* what of an AnalysisRecord the report is checked on
AnalysisOf(record) ==
    [present |-> TRUE, average_score |-> record.average_score, error |-> record.error]

\* competitor_result of endpoint_parse
CompetitorResult(parsed, analysis, analysis_type, analysis_error) ==
    [entry |-> parsed.entry, name |-> parsed.name, url |-> parsed.url,
     parsing_success |-> parsed.success, parsing_error |-> parsed.error,
     analysis |-> analysis, analysis_type |-> analysis_type,
     analysis_error |-> analysis_error]

\* mutant: successful counts the items that have an analysis
BuildReportCountsAnalysed(results) ==
    [present |-> TRUE,
     total_competitors |-> Len(results),
     successful |-> Cardinality({k \in 1..Len(results) : results[k].analysis.present}),
     results |-> results]

\* the report dict
BuildReport(results) ==
    [present |-> TRUE,
     total_competitors |-> Len(results),
     successful |-> Cardinality({k \in 1..Len(results) : results[k].parsing_success}),
     results |-> results]

Succeeded(report) == [returned |-> TRUE, success |-> TRUE, error |-> "", report |-> report]

\* mutant: the "except Exception" of the endpoint loses the message
FailedWithoutError(error) ==
    [returned |-> TRUE, success |-> FALSE, error |-> "", report |-> NoReport]

\* the "except Exception" of the endpoint
Failed(error) == [returned |-> TRUE, success |-> FALSE, error |-> error, report |-> NoReport]

\* what the model may answer in a batch: an object, prose, and null
BatchReplies ==
    {[raw |-> <<"J">>, doc |-> JsonObject(Sections, MetricsDict([k \in 1..NumMetrics |-> Scored(8)]))],
     [raw |-> <<"X", "N">>, doc |-> NoDoc],
     [raw |-> <<"J", "N">>, doc |-> NonObject("null")]}

\* mutant: the fetch loop left after its first entry
ParsingFinishedEarly == pos > 1

\* the for loop of parse_competitors_list is exhausted
ParsingFinished == pos > Len(competitors)

BatchInit ==
    /\ competitors \in CompetitorLists
    /\ bpc = "start"
    /\ pos = 0
    /\ driver = "none"
    /\ parsed_results = <<>>
    /\ idx = 0
    /\ analysis_results = <<>>
    /\ response = NoResponse
    /\ fetch_started = {}
    /\ fetch_finished = {}
    /\ analysis_started = {}
    /\ analysis_finished = {}
    /\ ValidateIdle
    /\ NewIdle

\* "if not request.competitors: raise HTTPException", caught by the endpoint
RejectEmpty ==
    /\ bpc = "start"
    /\ competitors = <<>>
    /\ response' = Failed("400: Spisok konkurentov pust")
    /\ bpc' = "done"
    /\ UNCHANGED <<competitors, pos, driver, parsed_results, idx, analysis_results,
                   fetch_started, fetch_finished, analysis_started, analysis_finished>>
    /\ UNCHANGED vvars
    /\ UNCHANGED nvars

\* parse_competitors_list is entered
BeginParsing ==
    /\ bpc = "start"
    /\ competitors # <<>>
    /\ bpc' = "fetch"
    /\ pos' = 1
    /\ UNCHANGED <<competitors, driver, parsed_results, idx, analysis_results, response,
                   fetch_started, fetch_finished, analysis_started, analysis_finished>>
    /\ UNCHANGED vvars
    /\ UNCHANGED nvars

\* an entry with an empty URL
SkipEmptyUrl ==
    /\ bpc = "fetch"
    /\ ~ParsingFinished
    /\ SkipsEntry(competitors[pos])
    /\ pos' = pos + 1
    /\ UNCHANGED <<competitors, bpc, driver, parsed_results, idx, analysis_results,
                   response, fetch_started, fetch_finished, analysis_started,
                   analysis_finished>>
    /\ UNCHANGED vvars
    /\ UNCHANGED nvars

\* parse_website: create_driver raises; the except records the error, the
\* finally finds driver None, the result is appended
CreateDriverFails ==
    /\ bpc = "fetch"
    /\ ~ParsingFinished
    /\ ~SkipsEntry(competitors[pos])
    /\ parsed_results' =
          ListAppend(parsed_results,
                     ParseOutcome(pos, competitors[pos], FALSE, "create_driver failed"))
    /\ pos' = pos + 1
    /\ fetch_started' = fetch_started \cup {pos}
    /\ fetch_finished' = fetch_finished \cup {pos}
    /\ UNCHANGED <<competitors, bpc, driver, idx, analysis_results, response,
                   analysis_started, analysis_finished>>
    /\ UNCHANGED vvars
    /\ UNCHANGED nvars

\* parse_website: create_driver returns a session
CreateDriver ==
    /\ bpc = "fetch"
    /\ ~ParsingFinished
    /\ ~SkipsEntry(competitors[pos])
    /\ driver' = "live"
    /\ bpc' = "fetching"
    /\ fetch_started' = fetch_started \cup {pos}
    /\ UNCHANGED <<competitors, pos, parsed_results, idx, analysis_results, response,
                   fetch_finished, analysis_started, analysis_finished>>
    /\ UNCHANGED vvars
    /\ UNCHANGED nvars

\* parse_website: navigation and extraction end, well or with an exception
\* recorded as the error; driver.quit() returns; the result is appended
ExtractAndQuit ==
    /\ bpc = "fetching"
    /\ \E extracted \in BOOLEAN :
          parsed_results' =
              ListAppend(parsed_results,
                         ParseOutcome(pos, competitors[pos], extracted,
                                      IF extracted THEN "" ELSE "extraction failed"))
    /\ driver' = "none"
    /\ pos' = pos + 1
    /\ bpc' = "fetch"
    /\ fetch_finished' = fetch_finished \cup {pos}
    /\ UNCHANGED <<competitors, idx, analysis_results, response, fetch_started,
                   analysis_started, analysis_finished>>
    /\ UNCHANGED vvars
    /\ UNCHANGED nvars

\* parse_website: driver.quit() raises in the finally; nothing catches it
\* before the "except Exception" of the endpoint
QuitRaises ==
    /\ bpc = "fetching"
    /\ driver' = "lost"
    /\ response' = Failed("driver.quit failed")
    /\ bpc' = "done"
    /\ fetch_finished' = fetch_finished \cup {pos}
    /\ UNCHANGED <<competitors, pos, parsed_results, idx, analysis_results,
                   fetch_started, analysis_started, analysis_finished>>
    /\ UNCHANGED vvars
    /\ UNCHANGED nvars

\* parse_competitors_list returns; the analysis loop is entered
BeginAnalysis ==
    /\ bpc = "fetch"
    /\ ParsingFinished
    /\ bpc' = "analyze"
    /\ idx' = 1
    /\ UNCHANGED <<competitors, pos, driver, parsed_results, analysis_results, response,
                   fetch_started, fetch_finished, analysis_started, analysis_finished>>
    /\ UNCHANGED vvars
    /\ UNCHANGED nvars

\* a parsed result with success False: no analysis
SkipAnalysis ==
    /\ bpc = "analyze"
    /\ idx <= Len(parsed_results)
    /\ ~parsed_results[idx].success
    /\ analysis_results' =
          AppendAnalysis(analysis_results,
                         CompetitorResult(parsed_results[idx], NoAnalysis, "", ""))
    /\ idx' = idx + 1
    /\ UNCHANGED <<competitors, bpc, pos, driver, parsed_results, response,
                   fetch_started, fetch_finished, analysis_started, analysis_finished>>
    /\ UNCHANGED vvars
    /\ UNCHANGED nvars

\* get_parsed_text raises (a meta description of None in the join)
FormatRaises ==
    /\ bpc = "analyze"
    /\ idx <= Len(parsed_results)
    /\ parsed_results[idx].success
    /\ analysis_results' =
          AppendAnalysis(analysis_results,
                         CompetitorResult(parsed_results[idx], NoAnalysis, "", "TypeError"))
    /\ idx' = idx + 1
    /\ analysis_started' = analysis_started \cup {parsed_results[idx].entry}
    /\ analysis_finished' = analysis_finished \cup {parsed_results[idx].entry}
    /\ UNCHANGED <<competitors, bpc, pos, driver, parsed_results, response,
                   fetch_started, fetch_finished>>
    /\ UNCHANGED vvars
    /\ UNCHANGED nvars

\* get_parsed_text returns and analyze_text sends the model call
CallModel ==
    /\ bpc = "analyze"
    /\ idx <= Len(parsed_results)
    /\ parsed_results[idx].success
    /\ bpc' = "analyzing"
    /\ analysis_started' = analysis_started \cup {parsed_results[idx].entry}
    /\ UNCHANGED <<competitors, pos, driver, parsed_results, idx, analysis_results,
                   response, fetch_started, fetch_finished, analysis_finished>>
    /\ UNCHANGED vvars
    /\ UNCHANGED nvars

\* the model call raises: the except of the loop records analysis_error
ModelRaises ==
    /\ bpc = "analyzing"
    /\ analysis_results' =
          AppendAnalysis(analysis_results,
                         CompetitorResult(parsed_results[idx], NoAnalysis, "", "ModelCallError"))
    /\ idx' = idx + 1
    /\ bpc' = "analyze"
    /\ analysis_finished' = analysis_finished \cup {parsed_results[idx].entry}
    /\ UNCHANGED <<competitors, pos, driver, parsed_results, response,
                   fetch_started, fetch_finished, analysis_started>>
    /\ UNCHANGED vvars
    /\ UNCHANGED nvars

\* the model call returns; analyze_text strips the content and validates it;
\* an exception of the validator is recorded as analysis_error
ModelReplies ==
    /\ bpc = "analyzing"
    /\ \E reply \in BatchReplies :
          LET record == _parse_json_response(Strip(reply.raw), parsed_results[idx].name,
                                             reply.doc)
          IN  analysis_results' =
                  AppendAnalysis(analysis_results,
                                 IF record.kind = "record"
                                 THEN CompetitorResult(parsed_results[idx],
                                                       AnalysisOf(record), "text", "")
                                 ELSE CompetitorResult(parsed_results[idx],
                                                       NoAnalysis, "", record.exc))
    /\ idx' = idx + 1
    /\ bpc' = "analyze"
    /\ analysis_finished' = analysis_finished \cup {parsed_results[idx].entry}
    /\ UNCHANGED <<competitors, pos, driver, parsed_results, response,
                   fetch_started, fetch_finished, analysis_started>>
    /\ UNCHANGED vvars
    /\ UNCHANGED nvars

\* the report is built and _save_report writes it, or raises
SaveReport ==
    /\ bpc = "analyze"
    /\ idx > Len(parsed_results)
    /\ \E saved \in BOOLEAN :
          response' = IF saved THEN Succeeded(BuildReport(analysis_results))
                      ELSE Failed("OSError")
    /\ bpc' = "done"
    /\ UNCHANGED <<competitors, pos, driver, parsed_results, idx, analysis_results,
                   fetch_started, fetch_finished, analysis_started, analysis_finished>>
    /\ UNCHANGED vvars
    /\ UNCHANGED nvars

BatchNext ==
    \/ RejectEmpty
    \/ BeginParsing
    \/ SkipEmptyUrl
    \/ CreateDriverFails
    \/ CreateDriver
    \/ ExtractAndQuit
    \/ QuitRaises
    \/ BeginAnalysis
    \/ SkipAnalysis
    \/ FormatRaises
    \/ CallModel
    \/ ModelRaises
    \/ ModelReplies
    \/ SaveReport

SpecBatch == BatchInit /\ [][BatchNext]_vars

(***************************************************************************)
(* fetchMany: parse_competitors_list with parse_website and create_driver  *)
(* step by step.  A step is cut at every call into the browser that may    *)
(* raise: the start of the browser process, its configuration, the         *)
(* navigation, the extraction, the screenshot and driver.quit().           *)
(***************************************************************************)
MaxFetched == 2

FetchLists == UNION {[1..k -> CompetitorEntries] : k \in 0..MaxFetched}

\* the result dict at the entry of parse_website
NewFetchResult(entry, competitor) ==
    [entry |-> entry, name |-> competitor.name, url |-> competitor.url,
     success |-> FALSE, error |-> "", data |-> EmptyData,
     raised_in |-> "", nav_timeout |-> FALSE]

\* mutant: the except clause of parse_website records nothing
ExceptClauseSilent(res, step, e) == [res EXCEPT !.raised_in = step]

\* "except Exception as e: result['error'] = str(e)"
ExceptClause(res, step, e) == [res EXCEPT !.error = e, !.raised_in = step]

\* mutant: the exception of driver.get is recorded as the error
NavigationExceptRecords(res, e) == [res EXCEPT !.error = e, !.nav_timeout = TRUE]

\* "except Exception as e: print(...)" around driver.get(url)
NavigationExcept(res, e) == [res EXCEPT !.nav_timeout = TRUE]

\* result["data"] = data; result["success"] = True
Completed(res, with_screenshot) ==
    [res EXCEPT !.data = [extracted |-> TRUE, screenshot_path |-> with_screenshot],
                !.success = TRUE]

\* the for loop of parse_competitors_list is exhausted
FetchLoopEnded == pos > Len(competitors)

\* parse_website returns to parse_competitors_list, which appends the result
ReturnToLoop ==
    /\ parsed_results' = ListAppend(parsed_results, fetch_result)
    /\ pos' = pos + 1
    /\ fpc' = "loop"

\* what the fetch steps leave alone of /parse and of the validator
FetchFrame ==
    /\ UNCHANGED <<bpc, idx, analysis_results, response, fetch_started, fetch_finished,
                   analysis_started, analysis_finished>>
    /\ UNCHANGED vvars
    /\ UNCHANGED avars
    /\ UNCHANGED mvars

FetchInit ==
    /\ competitors \in FetchLists
    /\ save_screenshots \in BOOLEAN
    /\ fpc = "loop"
    /\ pos = 1
    /\ driver = "none"
    /\ parsed_results = <<>>
    /\ browsers = 0
    /\ fetch_result = NoFetchResult
    /\ fetch_raised = ""
    /\ bpc = "idle"
    /\ idx = 0
    /\ analysis_results = <<>>
    /\ response = NoResponse
    /\ fetch_started = {}
    /\ fetch_finished = {}
    /\ analysis_started = {}
    /\ analysis_finished = {}
    /\ ValidateIdle
    /\ AnalysisIdle
    /\ MoreIdle

\* "if not url: continue"
FetchSkip ==
    /\ fpc = "loop"
    /\ ~FetchLoopEnded
    /\ SkipsEntry(competitors[pos])
    /\ pos' = pos + 1
    /\ UNCHANGED <<competitors, driver, parsed_results>>
    /\ UNCHANGED fvars
    /\ FetchFrame

\* parse_website is entered: driver = None, result = {...}
EnterParseWebsite ==
    /\ fpc = "loop"
    /\ ~FetchLoopEnded
    /\ ~SkipsEntry(competitors[pos])
    /\ fetch_result' = NewFetchResult(pos, competitors[pos])
    /\ driver' = "none"
    /\ fpc' = "create"
    /\ UNCHANGED <<competitors, pos, parsed_results>>
    /\ UNCHANGED <<save_screenshots, browsers, fetch_raised>>
    /\ FetchFrame

\* create_driver: ChromeDriverManager().install() or webdriver.Chrome raises
\* with no browser process running; the except clause records it
StartBrowserFails ==
    /\ fpc = "create"
    /\ fetch_result' = ExceptClause(fetch_result, "create", "WebDriverException")
    /\ fpc' = "finally"
    /\ UNCHANGED <<competitors, pos, driver, parsed_results>>
    /\ UNCHANGED <<save_screenshots, browsers, fetch_raised>>
    /\ FetchFrame

\* create_driver: webdriver.Chrome(...) returns, the browser process runs;
\* the session is held by the local variable of create_driver only
StartBrowser ==
    /\ fpc = "create"
    /\ browsers' = browsers + 1
    /\ fpc' = "configure"
    /\ UNCHANGED <<competitors, pos, driver, parsed_results>>
    /\ UNCHANGED <<save_screenshots, fetch_result, fetch_raised>>
    /\ FetchFrame

\* create_driver: set_page_load_timeout, set_script_timeout or implicitly_wait
\* raises; the exception leaves create_driver, driver of parse_website stays
\* None and the except clause records the error
ConfigureFails ==
    /\ fpc = "configure"
    /\ fetch_result' = ExceptClause(fetch_result, "configure", "WebDriverException")
    /\ fpc' = "finally"
    /\ UNCHANGED <<competitors, pos, driver, parsed_results>>
    /\ UNCHANGED <<save_screenshots, browsers, fetch_raised>>
    /\ FetchFrame

\* create_driver returns: driver = create_driver()
ConfigureReturns ==
    /\ fpc = "configure"
    /\ driver' = "live"
    /\ fpc' = "navigate"
    /\ UNCHANGED <<competitors, pos, parsed_results>>
    /\ UNCHANGED <<save_screenshots, browsers, fetch_result, fetch_raised>>
    /\ FetchFrame

\* driver.get(url) returns, or raises (page-load timeout) into its own
\* except clause; the wait for body and the pause follow either way
Navigate ==
    /\ fpc = "navigate"
    /\ \E timed_out \in BOOLEAN :
          fetch_result' = IF timed_out
                          THEN NavigationExcept(fetch_result, "TimeoutException")
                          ELSE fetch_result
    /\ fpc' = "extract"
    /\ UNCHANGED <<competitors, pos, driver, parsed_results>>
    /\ UNCHANGED <<save_screenshots, browsers, fetch_raised>>
    /\ FetchFrame

\* the title, headings, paragraphs and buttons: a call into the browser raises
ExtractFails ==
    /\ fpc = "extract"
    /\ fetch_result' = ExceptClause(fetch_result, "extract", "WebDriverException")
    /\ fpc' = "finally"
    /\ UNCHANGED <<competitors, pos, driver, parsed_results>>
    /\ UNCHANGED <<save_screenshots, browsers, fetch_raised>>
    /\ FetchFrame

\* the extraction ends; without save_screenshot the result is completed
ExtractReturns ==
    /\ fpc = "extract"
    /\ IF save_screenshots
       THEN fpc' = "screenshot" /\ UNCHANGED fetch_result
       ELSE fpc' = "finally" /\ fetch_result' = Completed(fetch_result, FALSE)
    /\ UNCHANGED <<competitors, pos, driver, parsed_results>>
    /\ UNCHANGED <<save_screenshots, browsers, fetch_raised>>
    /\ FetchFrame

\* execute_script, set_window_size or save_screenshot raises
ScreenshotFails ==
    /\ fpc = "screenshot"
    /\ fetch_result' = ExceptClause(fetch_result, "screenshot", "WebDriverException")
    /\ fpc' = "finally"
    /\ UNCHANGED <<competitors, pos, driver, parsed_results>>
    /\ UNCHANGED <<save_screenshots, browsers, fetch_raised>>
    /\ FetchFrame

\* save_screenshot returns; data["screenshot_path"] is set; result completed
ScreenshotReturns ==
    /\ fpc = "screenshot"
    /\ fetch_result' = Completed(fetch_result, TRUE)
    /\ fpc' = "finally"
    /\ UNCHANGED <<competitors, pos, driver, parsed_results>>
    /\ UNCHANGED <<save_screenshots, browsers, fetch_raised>>
    /\ FetchFrame

\* finally: "if driver:" is false, nothing is quit; return result
FinallyNoDriver ==
    /\ fpc = "finally"
    /\ driver = "none"
    /\ ReturnToLoop
    /\ UNCHANGED <<competitors, driver>>
    /\ UNCHANGED <<save_screenshots, browsers, fetch_result, fetch_raised>>
    /\ FetchFrame

\* finally: driver.quit() returns, the browser process is ended; return result
QuitReturns ==
    /\ fpc = "finally"
    /\ driver = "live"
    /\ browsers' = browsers - 1
    /\ driver' = "none"
    /\ ReturnToLoop
    /\ UNCHANGED competitors
    /\ UNCHANGED <<save_screenshots, fetch_result, fetch_raised>>
    /\ FetchFrame

\* finally: driver.quit() raises, with the browser process ended or not; the
\* exception leaves parse_website and parse_competitors_list
QuitFails ==
    /\ fpc = "finally"
    /\ driver = "live"
    /\ \E ended \in BOOLEAN : browsers' = IF ended THEN browsers - 1 ELSE browsers
    /\ fetch_raised' = "WebDriverException"
    /\ fpc' = "raised"
    /\ UNCHANGED <<competitors, pos, driver, parsed_results>>
    /\ UNCHANGED <<save_screenshots, fetch_result>>
    /\ FetchFrame

\* return results
FetchReturn ==
    /\ fpc = "loop"
    /\ FetchLoopEnded
    /\ fpc' = "returned"
    /\ UNCHANGED <<competitors, pos, driver, parsed_results>>
    /\ UNCHANGED <<save_screenshots, browsers, fetch_result, fetch_raised>>
    /\ FetchFrame

FetchNext ==
    \/ FetchSkip
    \/ EnterParseWebsite
    \/ StartBrowserFails
    \/ StartBrowser
    \/ ConfigureFails
    \/ ConfigureReturns
    \/ Navigate
    \/ ExtractFails
    \/ ExtractReturns
    \/ ScreenshotFails
    \/ ScreenshotReturns
    \/ FinallyNoDriver
    \/ QuitReturns
    \/ QuitFails
    \/ FetchReturn

SpecFetch == FetchInit /\ [][FetchNext]_vars

(***************************************************************************)
(* The analysis client (analyze_image, analyze_text) called on its own,    *)
(* and the single-item endpoints /analyze-image, /analyze-text and         *)
(* /parse-single.  An analysis function is cut at the model call: it is    *)
(* entered (get_client, encode_image_to_base64), the call is in flight,    *)
(* the call ends and its content is validated.                             *)
(***************************************************************************)
Ops == {"analyze_image", "analyze_text", "/analyze-image", "/analyze-text", "/parse-single"}

Endpoints == {"/analyze-image", "/analyze-text", "/parse-single"}

\* what parse_website(url, name, save_screenshot=True) hands to /parse-single:
\* an exception of driver.quit(), a failure, or a success whose screenshot
\* file exists or not (save_screenshot returns False without raising)
SingleFetches ==
    LET res == NewFetchResult(1, [name |-> "Acme", url |-> "https://www.acme.example"])
    IN  {[raised |-> TRUE, res |-> res, file |-> FALSE],
         [raised |-> FALSE, res |-> ExceptClause(res, "extract", "WebDriverException"),
          file |-> FALSE]}
        \cup {[raised |-> FALSE, res |-> Completed(res, TRUE), file |-> e] : e \in BOOLEAN}

\* the result dict of /parse-single
SingleResult(res, analysis, analysis_type) ==
    CompetitorResult(res, analysis, analysis_type, "")

\* what the model may answer: the replies of a batch, no content, and an
\* object inside a json fence
AnalysisReplies ==
    BatchReplies \cup
    {[raw |-> <<>>, doc |-> NoDoc],
     [raw |-> <<"F", "T", "N", "J", "N", "F">>,
      doc |-> JsonObject(Sections, MetricsDict([k \in 1..NumMetrics |-> Scored(6)]))]}

\* mutant: the image is used whenever the fetch names a screenshot
UsesImageUnchecked(res, file) == res.data.screenshot_path

\* "if screenshot_path and Path(screenshot_path).exists()"
UsesImage(res, file) == res.data.screenshot_path /\ file

\* what raises before the model call: get_client without a key; then
\* encode_image_to_base64: Path(image_path).exists() is false for a missing
\* file, and true for the empty path (the current directory), which open()
\* then refuses
EntryException ==
    IF ~api_key THEN "ValueError"
    ELSE IF mode = "image" /\ image_path = "missing" THEN "FileNotFoundError"
    ELSE IF mode = "image" /\ image_path = "empty" THEN "IsADirectoryError"
    ELSE ""

\* the bare "except:" around analyze_image in /parse-single
FallsBackToText == op = "/parse-single" /\ mode = "image"

\* mutant: the exception of the analysis function is turned into a
\* fallback record
AnalysisRaisesSwallowed(t, exc) ==
    /\ a_out' = _get_fallback_result("acme", <<>>)
    /\ trace' = Append(t, <<mode, "return">>)
    /\ UNCHANGED <<mode, response>>
    /\ single_result' =
          IF op = "/parse-single"
          THEN SingleResult(single_parsed, AnalysisOf(_get_fallback_result("acme", <<>>)), mode)
          ELSE single_result
    /\ apc' = IF op \in Endpoints THEN "save" ELSE "done"

\* an exception leaves the analysis function: to the caller of a direct
\* call, to the "except Exception" of the endpoint, or to the text fallback
AnalysisRaises(t, exc) ==
    /\ a_out' = Raise(exc)
    /\ trace' = Append(t, <<mode, "raise">>)
    /\ UNCHANGED single_result
    /\ IF FallsBackToText
       THEN mode' = "text" /\ apc' = "enter" /\ UNCHANGED response
       ELSE /\ UNCHANGED mode
            /\ apc' = "done"
            /\ response' = IF op \in Endpoints THEN Failed(exc) ELSE response

\* mutant: a fallback record of the image analysis sends /parse-single on
\* to the text analysis
AnalysisReturnsRetriesText(t, record) ==
    /\ a_out' = record
    /\ trace' = Append(t, <<mode, "return">>)
    /\ UNCHANGED response
    /\ IF FallsBackToText /\ record.error = ParseErrorMarker
       THEN mode' = "text" /\ apc' = "enter" /\ UNCHANGED single_result
       ELSE /\ UNCHANGED mode
            /\ single_result' =
                  IF op = "/parse-single"
                  THEN SingleResult(single_parsed, AnalysisOf(record), mode)
                  ELSE single_result
            /\ apc' = IF op \in Endpoints THEN "save" ELSE "done"

\* the analysis function returns the record of the validator
AnalysisReturns(t, record) ==
    /\ a_out' = record
    /\ trace' = Append(t, <<mode, "return">>)
    /\ UNCHANGED <<mode, response>>
    /\ single_result' =
          IF op = "/parse-single"
          THEN SingleResult(single_parsed, AnalysisOf(record), mode)
          ELSE single_result
    /\ apc' = IF op \in Endpoints THEN "save" ELSE "done"

\* what the analysis steps leave alone
AnalysisFrame ==
    /\ UNCHANGED <<op, api_key, valid>>
    /\ UNCHANGED <<competitors, bpc, pos, driver, parsed_results, idx, analysis_results,
                   fetch_started, fetch_finished, analysis_started, analysis_finished>>
    /\ UNCHANGED vvars
    /\ UNCHANGED fvars
    /\ UNCHANGED mvars

AnalysisInit ==
    /\ op \in Ops
    /\ apc = "start"
    /\ api_key \in BOOLEAN
    /\ valid \in (IF op \in {"/analyze-image", "/analyze-text"} THEN BOOLEAN ELSE {TRUE})
    /\ image_path \in (IF op = "analyze_image" THEN {"file", "missing", "empty"}
                       ELSE {"none"})
    /\ single_parsed = NoFetchResult
    /\ mode = ""
    /\ a_out = NoOut
    /\ single_result = NoItem
    /\ trace = <<>>
    /\ BatchIdle
    /\ ValidateIdle
    /\ FetchIdle
    /\ MoreIdle

\* analyze_image(image_path, name) or analyze_text(text, name) is called
CallAnalysis ==
    /\ apc = "start"
    /\ op \in {"analyze_image", "analyze_text"}
    /\ mode' = (IF op = "analyze_image" THEN "image" ELSE "text")
    /\ apc' = "enter"
    /\ UNCHANGED <<image_path, single_parsed, a_out, single_result, trace, response>>
    /\ AnalysisFrame

\* /analyze-image with a content type not allowed, /analyze-text with a
\* blank text: HTTPException raised inside the try of the endpoint
RejectRequest ==
    /\ apc = "start"
    /\ op \in {"/analyze-image", "/analyze-text"}
    /\ ~valid
    /\ response' = Failed(IF op = "/analyze-image"
                          THEN "400: Nepodderzhivaemyj tip fajla"
                          ELSE "400: Tekst ne mozhet byt pustym")
    /\ trace' = Append(trace, <<"input", "raise">>)
    /\ apc' = "done"
    /\ UNCHANGED <<image_path, single_parsed, mode, a_out, single_result>>
    /\ AnalysisFrame

\* /analyze-text with a text
AcceptText ==
    /\ apc = "start"
    /\ op = "/analyze-text"
    /\ valid
    /\ mode' = "text"
    /\ apc' = "enter"
    /\ UNCHANGED <<image_path, single_parsed, a_out, single_result, trace, response>>
    /\ AnalysisFrame

\* /analyze-image writes the upload to a temporary file, or the write raises
SaveUpload ==
    /\ apc = "start"
    /\ op = "/analyze-image"
    /\ valid
    /\ \E written \in BOOLEAN :
          IF written
          THEN /\ image_path' = "file"
               /\ mode' = "image"
               /\ apc' = "enter"
               /\ UNCHANGED <<trace, response>>
          ELSE /\ response' = Failed("OSError")
               /\ trace' = Append(trace, <<"upload", "raise">>)
               /\ apc' = "done"
               /\ UNCHANGED <<image_path, mode>>
    /\ UNCHANGED <<single_parsed, a_out, single_result>>
    /\ AnalysisFrame

\* /parse-single: parse_website returns or raises; the result dict is built
\* and the analysis mode chosen
FetchSingle ==
    /\ apc = "start"
    /\ op = "/parse-single"
    /\ \E f \in SingleFetches :
          /\ single_parsed' = f.res
          /\ IF f.raised
             THEN /\ response' = Failed("WebDriverException")
                  /\ trace' = Append(trace, <<"quit", "raise">>)
                  /\ apc' = "done"
                  /\ UNCHANGED <<image_path, mode, single_result>>
             ELSE /\ single_result' = SingleResult(f.res, NoAnalysis, "")
                  /\ UNCHANGED response
                  /\ IF ~f.res.success
                     THEN /\ trace' = Append(trace, <<"fetch", "raise">>)
                          /\ apc' = "save"
                          /\ UNCHANGED <<image_path, mode>>
                     ELSE /\ trace' = Append(trace, <<"screenshot",
                                                      IF f.file THEN "exists" ELSE "absent">>)
                          /\ apc' = "enter"
                          /\ IF UsesImage(f.res, f.file)
                             THEN image_path' = "file" /\ mode' = "image"
                             ELSE mode' = "text" /\ UNCHANGED image_path
    /\ UNCHANGED a_out
    /\ AnalysisFrame

\* /parse-single: get_parsed_text raises before analyze_text is called
FormatFails ==
    /\ apc = "enter"
    /\ op = "/parse-single"
    /\ mode = "text"
    /\ response' = Failed("TypeError")
    /\ trace' = Append(trace, <<"format", "raise">>)
    /\ apc' = "done"
    /\ UNCHANGED <<image_path, single_parsed, mode, a_out, single_result>>
    /\ AnalysisFrame

\* the analysis function is entered: get_client, then for an image the
\* encoding; it raises, or sends the model call
EnterAnalysis ==
    /\ apc = "enter"
    /\ IF EntryException = ""
       THEN /\ trace' = Append(Append(trace, <<mode, "enter">>), <<mode, "call">>)
            /\ apc' = "calling"
            /\ UNCHANGED <<mode, a_out, single_result, response>>
       ELSE AnalysisRaises(Append(trace, <<mode, "enter">>), EntryException)
    /\ UNCHANGED <<image_path, single_parsed>>
    /\ AnalysisFrame

\* client.chat.completions.create raises
ModelCallRaises ==
    /\ apc = "calling"
    /\ AnalysisRaises(Append(trace, <<mode, "call_failed">>), "ModelCallError")
    /\ UNCHANGED <<image_path, single_parsed>>
    /\ AnalysisFrame

\* the model call returns; the content is stripped and validated
ModelCallReplies ==
    /\ apc = "calling"
    /\ \E reply \in AnalysisReplies :
          LET record == _parse_json_response(Strip(reply.raw), "acme", reply.doc)
              t == Append(trace, <<mode, IF JsonLoadsOk(StripFence(Strip(reply.raw)))
                                         THEN "reply_parsed" ELSE "reply_unparsed">>)
          IN  IF record.kind = "record"
              THEN AnalysisReturns(t, record)
              ELSE AnalysisRaises(t, record.exc)
    /\ UNCHANGED <<image_path, single_parsed>>
    /\ AnalysisFrame

\* _save_to_history writes the entry, or raises; the endpoint answers
SaveToHistory ==
    /\ apc = "save"
    /\ \E saved \in BOOLEAN :
          IF saved
          THEN response' = Succeeded(NoReport) /\ UNCHANGED trace
          ELSE response' = Failed("OSError") /\ trace' = Append(trace, <<"save", "raise">>)
    /\ apc' = "done"
    /\ UNCHANGED <<image_path, single_parsed, mode, a_out, single_result>>
    /\ AnalysisFrame

AnalysisNext ==
    \/ CallAnalysis
    \/ RejectRequest
    \/ AcceptText
    \/ SaveUpload
    \/ FetchSingle
    \/ FormatFails
    \/ EnterAnalysis
    \/ ModelCallRaises
    \/ ModelCallReplies
    \/ SaveToHistory

SpecAnalysis == AnalysisInit /\ [][AnalysisNext]_vars

(***************************************************************************)
(* The four operations of the server together: a request is one of /parse, *)
(* /analyze-image, /analyze-text, /parse-single (or a direct call of the   *)
(* analysis client).                                                       *)
(***************************************************************************)
ApiInit == BatchInit \/ AnalysisInit

ApiNext == BatchNext \/ AnalysisNext

SpecApi == ApiInit /\ [][ApiNext]_vars

(***************************************************************************)
(* The start of the process.  main.py checks the configuration, starts the *)
(* API server in a thread and then the UI; api_server.py run as a script   *)
(* starts the server alone.  A running server receives one request.        *)
(***************************************************************************)
StartupInit ==
    /\ entry_point \in {"main.py", "api_server.py"}
    /\ process = "start"
    /\ op = "none"
    /\ apc = "idle"
    /\ api_key \in BOOLEAN
    /\ valid = TRUE
    /\ image_path = "none"
    /\ single_parsed = NoFetchResult
    /\ mode = ""
    /\ a_out = NoOut
    /\ single_result = NoItem
    /\ trace = <<>>
    /\ BatchIdle
    /\ ValidateIdle
    /\ FetchIdle
    /\ ExtractIdle
    /\ UiIdle

\* what the steps of the start leave alone
StartupFrame ==
    /\ UNCHANGED <<entry_point, api_key, image_path, single_parsed, mode, a_out,
                   single_result, trace>>
    /\ UNCHANGED <<vvars, bvars, fvars, xvars, uvars>>

\* main: validate_config raises ValueError, the message is printed, sys.exit(1)
ConfigInvalid ==
    /\ process = "start"
    /\ entry_point = "main.py"
    /\ ~api_key
    /\ process' = "exited"
    /\ UNCHANGED <<op, apc, valid>>
    /\ StartupFrame

\* main: validate_config returns and the thread of run_api_server is started
StartApiThread ==
    /\ process = "start"
    /\ entry_point = "main.py"
    /\ api_key
    /\ process' = "server"
    /\ UNCHANGED <<op, apc, valid>>
    /\ StartupFrame

\* main: wait_for_server returns and run_app() opens the window
RunApp ==
    /\ process = "server"
    /\ entry_point = "main.py"
    /\ process' = "server and ui"
    /\ UNCHANGED <<op, apc, valid>>
    /\ StartupFrame

\* api_server.py as a script: uvicorn.run(app, ...) with no check of the key
RunServerScript ==
    /\ process = "start"
    /\ entry_point = "api_server.py"
    /\ process' = "server"
    /\ UNCHANGED <<op, apc, valid>>
    /\ StartupFrame

\* the running server receives a request for one of its analysis endpoints
ReceiveRequest ==
    /\ process \in {"server", "server and ui"}
    /\ apc = "idle"
    /\ op' \in Endpoints
    /\ valid' \in BOOLEAN
    /\ apc' = "start"
    /\ UNCHANGED process
    /\ StartupFrame

StartupNext ==
    \/ ConfigInvalid
    \/ StartApiThread
    \/ RunApp
    \/ RunServerScript
    \/ ReceiveRequest
    \/ RejectRequest
    \/ AcceptText
    \/ SaveUpload
    \/ FetchSingle
    \/ FormatFails
    \/ EnterAnalysis
    \/ ModelCallRaises
    \/ ModelCallReplies
    \/ SaveToHistory

SpecStartup == StartupInit /\ [][StartupNext]_vars

(***************************************************************************)
(* The pure steps of parse_website and get_parsed_text, each called alone: *)
(* the default name, the paragraph filter, and the formatting of a result. *)
(* A host is a sequence of the characters "w", "." and "a"; a paragraph    *)
(* element is the length of its trimmed text; the formatted text is a      *)
(* sequence of lines, each noted with its section and its kind.            *)
(***************************************************************************)
MaxHost == 6

MaxElements == 11

MaxItems == 2

ParagraphElements == 10

ParagraphMinLen == 50

ParagraphMaxLen == 500

RECURSIVE ReplaceWww(_)
\* str.replace("www.", ""): every occurrence, left to right
ReplaceWww(s) ==
    IF Len(s) < 4 THEN s
    ELSE IF SubSeq(s, 1, 4) = <<"w", "w", "w", ".">> THEN ReplaceWww(SubSeq(s, 5, Len(s)))
    ELSE <<s[1]>> \o ReplaceWww(Tail(s))

\* "for p in paragraphs[:10]: if len(text) > 50: append(text[:500])"
CollectParagraphs(els) ==
    LET first == SubSeq(els, 1, IF Len(els) < ParagraphElements THEN Len(els)
                                ELSE ParagraphElements)
        kept == SelectSeq(first, LAMBDA n : n > ParagraphMinLen)
    IN  [k \in 1..Len(kept) |->
            IF kept[k] > ParagraphMaxLen THEN ParagraphMaxLen ELSE kept[k]]

\* get_parsed_text: data.get(key, placeholder) for the title and the meta
\* description, then a header and one line per item for each list; the join
\* raises TypeError on a meta description of None
get_parsed_text(data) ==
    LET Line(section, kind) == [section |-> section, kind |-> kind]
        Scalar(section, v) ==
            <<Line(section, "header"),
              Line(section, IF v = "absent" THEN "placeholder"
                            ELSE IF v = "" THEN "empty" ELSE "value"),
              Line(section, "blank")>>
        Items(section, n) == [k \in 1..n |-> Line(section, "item")]
    IN  IF data.meta_description = "None" THEN <<Line("", "TypeError")>>
        ELSE <<Line("", "name"), Line("", "url"), Line("", "blank")>>
             \o Scalar("page_title", data.page_title)
             \o Scalar("meta_description", data.meta_description)
             \o <<Line("headings", "header")>> \o Items("headings", data.headings)
             \o <<Line("paragraphs", "blank"), Line("paragraphs", "header")>>
             \o Items("paragraphs", data.paragraphs)
             \o <<Line("cta_buttons", "blank"), Line("cta_buttons", "header")>>
             \o Items("cta_buttons", data.cta_buttons)
             \o <<Line("nav_links", "blank"), Line("nav_links", "header")>>
             \o Items("nav_links", data.nav_links)

ExtractInit ==
    /\ xpc \in {"name", "paragraphs", "format"}
    /\ netloc \in (IF xpc = "name"
                   THEN UNION {[1..k -> {"w", ".", "a"}] : k \in 0..MaxHost}
                   ELSE {<<>>})
    /\ name \in (IF xpc = "name" THEN {<<>>, <<"given">>} ELSE {<<>>})
    /\ elements \in (IF xpc = "paragraphs"
                     THEN UNION {[1..k -> {40, 50, 51, 600}] : k \in 0..3}
                          \cup UNION {[1..k -> {40, 600}] : k \in 4..MaxElements}
                     ELSE {<<>>})
    /\ paragraphs = <<>>
    /\ page_data \in (IF xpc = "format"
                      THEN [page_title : {"absent", "", "title"},
                            meta_description : {"absent", "", "None", "description"},
                            headings : 0..MaxItems, paragraphs : 0..MaxItems,
                            cta_buttons : 0..MaxItems, nav_links : 0..MaxItems]
                      ELSE {NoPageData})
    /\ text = <<>>
    /\ StartupIdle
    /\ BatchIdle
    /\ ValidateIdle
    /\ FetchIdle
    /\ AnalysisIdle
    /\ UiIdle

\* what the pure steps leave alone
ExtractFrame == UNCHANGED <<vvars, bvars, fvars, avars, entry_point, process, uvars>>

\* "if not name: name = urlparse(url).netloc.replace('www.', '')"
DefaultName ==
    /\ xpc = "name"
    /\ name' = (IF name = <<>> THEN ReplaceWww(netloc) ELSE name)
    /\ xpc' = "done"
    /\ UNCHANGED <<netloc, elements, paragraphs, page_data, text>>
    /\ ExtractFrame

\* data["paragraphs"] is filled from the <p> elements
FillParagraphs ==
    /\ xpc = "paragraphs"
    /\ paragraphs' = CollectParagraphs(elements)
    /\ xpc' = "done"
    /\ UNCHANGED <<netloc, name, elements, page_data, text>>
    /\ ExtractFrame

\* get_parsed_text(parsed) is called
FormatText ==
    /\ xpc = "format"
    /\ text' = get_parsed_text(page_data)
    /\ xpc' = "done"
    /\ UNCHANGED <<netloc, name, elements, paragraphs, page_data>>
    /\ ExtractFrame

ExtractNext == DefaultName \/ FillParagraphs \/ FormatText

SpecExtract == ExtractInit /\ [][ExtractNext]_vars

(***************************************************************************)
(* The desktop window (MainWindow) and its AnalysisWorker threads.  A      *)
(* worker is a record: its task type, where run() is, the path run() took  *)
(* and the number of completion signals it emitted.  The signals are       *)
(* emitted in the worker thread and handled in the thread of the window,   *)
(* so they wait in the event queue of the window.  run() ends because      *)
(* every request has a timeout.                                            *)
(***************************************************************************)
MaxStarts == 2

MaxListed == 1

\* the worker self.worker refers to, 0 for None
Current == Len(workers)

\* QThread.isRunning(): from start() until run() has returned
isRunning(w) == workers[w].wpc # "returned"

\* the paths of run() after the server answered the check
RequestPaths(task) ==
    IF task \in {"parse", "parse_single", "analyze_image"}
    THEN {"success", "http_error", "connection_error", "timeout", "other"}
    ELSE {"unknown_task"}

\* mutant: raise_for_status() raising is not reported
EmitsSilentOnHttpError(path) ==
    IF path = "http_error" THEN <<>>
    ELSE IF path = "success" THEN <<"finished">> ELSE <<"error">>

\* the signals run() emits on a path: finished after raise_for_status and
\* response.json(), error in every except clause
Emits(path) == IF path = "success" THEN <<"finished">> ELSE <<"error">>

\* _set_loading(flag)
_set_loading(flag) ==
    /\ loading' = flag
    /\ btn_parse' = (~flag /\ competitor_count > 0)
    /\ btn_load_files' = ~flag
    /\ btn_clear' = ~flag

\* mutant: the running worker is not looked at
_start_worker_unguarded(task) ==
    /\ Len(workers) < MaxStarts
    /\ _set_loading(TRUE)
    /\ workers' = Append(workers, [task |-> task, wpc |-> "check", path |-> "",
                                   emitted |-> 0])
    /\ UNCHANGED <<signal_queue, competitor_count, message>>

\* _start_worker(task): the warning while self.worker is running, else a
\* new worker is started
_start_worker(task) ==
    IF Current > 0 /\ isRunning(Current)
    THEN /\ message' = "busy"
         /\ UNCHANGED <<workers, signal_queue, loading, btn_parse, btn_load_files,
                        btn_clear, competitor_count>>
    ELSE /\ Len(workers) < MaxStarts
         /\ _set_loading(TRUE)
         /\ workers' = Append(workers, [task |-> task, wpc |-> "check", path |-> "",
                                        emitted |-> 0])
         /\ UNCHANGED <<signal_queue, competitor_count, message>>

\* what the window and its workers leave alone
UiFrame == UNCHANGED <<vvars, bvars, fvars, avars, entry_point, process, xvars>>

UiInit ==
    /\ workers = <<>>
    /\ signal_queue = <<>>
    /\ loading = FALSE
    /\ btn_parse = FALSE
    /\ btn_load_files = TRUE
    /\ btn_clear = TRUE
    /\ competitor_count = 0
    /\ message = ""
    /\ ValidateIdle
    /\ BatchIdle
    /\ FetchIdle
    /\ AnalysisIdle
    /\ StartupIdle
    /\ ExtractIdle

\* _add_competitor, _on_delete_competitor, and _on_clear_competitors
\* confirmed: the list changes and _update_competitors_table enables
\* "start analysis" by the count alone
ChangeList ==
    /\ \E n \in 0..MaxListed :
          /\ \/ n = competitor_count + 1
             \/ n = competitor_count - 1
             \/ n = 0 /\ btn_clear /\ competitor_count > 0
          /\ competitor_count' = n
          /\ btn_parse' = (n > 0)
    /\ UNCHANGED <<workers, signal_queue, loading, btn_load_files, btn_clear, message>>
    /\ UiFrame

\* _on_start_analysis: the button is pressed and the question answered
StartAnalysis ==
    /\ btn_parse
    /\ IF competitor_count = 0
       THEN message' = "no competitors"
            /\ UNCHANGED <<workers, signal_queue, loading, btn_parse, btn_load_files,
                           btn_clear, competitor_count>>
       ELSE \E yes \in BOOLEAN :
               IF yes THEN _start_worker("parse") ELSE UNCHANGED uvars
    /\ UiFrame

\* _on_load_files: the button is pressed and files are chosen, or none
LoadFiles ==
    /\ btn_load_files
    /\ \E files \in BOOLEAN :
          IF files THEN _start_worker("analyze_image") ELSE UNCHANGED uvars
    /\ UiFrame

\* run(): the GET of the server check answers 200, or the except of the
\* check emits error
CheckServer ==
    /\ \E w \in 1..Len(workers) :
          /\ workers[w].wpc = "check"
          /\ \E up \in BOOLEAN :
                IF up
                THEN /\ workers' = [workers EXCEPT ![w].wpc = "request"]
                     /\ UNCHANGED signal_queue
                ELSE /\ workers' = [workers EXCEPT ![w].wpc = "emitted",
                                                   ![w].path = "unreachable",
                                                   ![w].emitted = @ + Len(Emits("unreachable"))]
                     /\ signal_queue' =
                           signal_queue \o [k \in 1..Len(Emits("unreachable")) |->
                                               <<w, Emits("unreachable")[k]>>]
    /\ UNCHANGED <<loading, btn_parse, btn_load_files, btn_clear, competitor_count, message>>
    /\ UiFrame

\* run(): the request of the task is sent and answered, or an exception is
\* raised; finished or error is emitted
SendRequest ==
    /\ \E w \in 1..Len(workers) :
          /\ workers[w].wpc = "request"
          /\ \E path \in RequestPaths(workers[w].task) :
                /\ workers' = [workers EXCEPT ![w].wpc = "emitted",
                                              ![w].path = path,
                                              ![w].emitted = @ + Len(Emits(path))]
                /\ signal_queue' =
                      signal_queue \o [k \in 1..Len(Emits(path)) |-> <<w, Emits(path)[k]>>]
    /\ UNCHANGED <<loading, btn_parse, btn_load_files, btn_clear, competitor_count, message>>
    /\ UiFrame

\* run() returns and the thread ends
ReturnFromRun ==
    /\ \E w \in 1..Len(workers) :
          /\ workers[w].wpc = "emitted"
          /\ workers' = [workers EXCEPT ![w].wpc = "returned"]
    /\ UNCHANGED <<signal_queue, loading, btn_parse, btn_load_files, btn_clear,
                   competitor_count, message>>
    /\ UiFrame

\* _on_worker_finished or _on_worker_error handles the next queued signal
HandleSignal ==
    /\ signal_queue # <<>>
    /\ signal_queue' = Tail(signal_queue)
    /\ _set_loading(FALSE)
    /\ message' = (IF Head(signal_queue)[2] = "finished" THEN "result" ELSE "error")
    /\ UNCHANGED <<workers, competitor_count>>
    /\ UiFrame

UiNext ==
    \/ ChangeList
    \/ StartAnalysis
    \/ LoadFiles
    \/ CheckServer
    \/ SendRequest
    \/ ReturnFromRun
    \/ HandleSignal

SpecUi == UiInit /\ [][UiNext]_vars

\* the worker threads are scheduled and the event loop of the window runs
SpecUiFair ==
    /\ UiInit
    /\ [][UiNext]_vars
    /\ WF_vars(CheckServer)
    /\ WF_vars(SendRequest)
    /\ WF_vars(ReturnFromRun)
    /\ WF_vars(HandleSignal)

(***************************************************************************)
(* Claims about validate (_parse_json_response), under SpecValidate.       *)
(***************************************************************************)
Returns == vpc = "return"

\* json.loads raised JSONDecodeError on the text left after the wrapper removal
ParseFailed == ~JsonLoadsOk(StripFence(raw))

NonEmpty(s) == s.lit # "" \/ s.chars # <<>>

\* C1: validate never raises: every call returns an AnalysisRecord, also
\* when the text is valid JSON that is no object, or an object whose metrics
\* value is no mapping or whose scores are no numbers.
CE_C1_NeverRaises == Returns => out.kind = "record"

\* C2: when the raw output parses as a JSON object that misses any subset
\* of the six top-level sections, the record returned holds all six, each
\* missing one with its fixed default: empty lists and placeholder strings,
\* the competitor's name, and for metrics all 7 keys with score 5 and the
\* description "not evaluated".
Thm_C2_MissingSectionsDefaulted ==
    (Returns /\ result.kind = "object" /\ out.kind = "record") =>
        /\ Sections \subseteq out.keys
        /\ "company_info" \notin result.has =>
              out.company_info =
                 [name |-> competitor_name, tagline |-> "", niche |-> "Ne opredeleno",
                  target_audience |-> "Ne opredeleno", main_offer |-> "Ne opredeleno",
                  unique_selling_points |-> <<>>]
        /\ "metrics" \notin result.has =>
              /\ out.metrics.kind = "dict"
              /\ \A i \in 1..NumMetrics :
                    /\ out.metrics.items[i].present
                    /\ out.metrics.items[i].isdict
                    /\ out.metrics.items[i].hasScore
                    /\ out.metrics.items[i].numeric
                    /\ out.metrics.items[i].score = 5
                    /\ out.metrics.items[i].description = "Ne oceneno"
        /\ "competitive_analysis" \notin result.has =>
              out.competitive_analysis =
                 [strengths |-> <<>>, weaknesses |-> <<>>,
                  opportunities |-> <<>>, threats |-> <<>>]
        /\ "positioning_summary" \notin result.has =>
              out.positioning_summary = Str("Analiz ne zavershyon")
        /\ "recommendations_for_user" \notin result.has =>
              out.recommendations_for_user = <<>>
        /\ "key_takeaways" \notin result.has => out.key_takeaways = <<>>
        /\ \A k \in result.has \ {"metrics"} : k \in out.keys
        /\ "company_info" \in result.has => out.company_info = ModelCompanyInfo
        /\ "metrics" \in result.has => out.metrics = result.metrics

\* a returned record of an object that had some sections, but neither
\* metrics nor key_takeaways
Wit_C2_SomeSectionsMissing ==
    /\ Returns /\ result.kind = "object" /\ out.kind = "record"
    /\ "company_info" \in result.has
    /\ "metrics" \notin result.has
    /\ "key_takeaways" \notin result.has

\* the number of metric scores of a record and their sum
ScoreCount(r) == Cardinality(ScoredKeys(r.metrics))

ScoreSum(r) == SumScores(r.metrics, ScoredKeys(r.metrics))

\* a (in tenths) is the mean of the record's scores rounded to one decimal:
\* no tenth is nearer to total / n
IsRoundedMean(a, r) ==
    LET d == a * ScoreCount(r) - 10 * ScoreSum(r)
    IN  ScoreCount(r) > 0 /\ 2 * d <= ScoreCount(r) /\ 2 * d >= 0 - ScoreCount(r)

\* C3 as stated: in every record returned, on the parse-success path and on
\* the fallback path alike, averageScore is the mean of the metric scores of
\* that record rounded to 1 decimal, and is 0 only when the record has no
\* metric scores.
CE_C3_AverageIsMeanOnEveryPath ==
    (Returns /\ out.kind = "record") =>
        /\ ScoreCount(out) > 0 => IsRoundedMean(out.average_score, out)
        /\ out.average_score = 0 => ScoreCount(out) = 0

\* C3 as amended: on the parse-success path averageScore is the mean of the
\* metric scores of the record rounded to 1 decimal, and 0 when the record
\* has no metric scores; on the fallback path averageScore is 0 although the
\* record carries the seven default scores of 5.
Thm_C3_AverageIsMeanOnSuccessPath ==
    (Returns /\ out.kind = "record") =>
        IF ParseFailed
        THEN out.average_score = 0 /\ ScoreCount(out) = NumMetrics
             /\ ScoreSum(out) = 5 * NumMetrics
        ELSE /\ ScoreCount(out) > 0 => IsRoundedMean(out.average_score, out)
             /\ ScoreCount(out) = 0 => out.average_score = 0

\* scores 8, 6 and 0 returned with the average 4.7
Wit_C3_RoundedMean ==
    /\ Returns /\ out.kind = "record" /\ ~ParseFailed
    /\ ScoreCount(out) = 3 /\ ScoreSum(out) = 14
    /\ out.average_score = 47

\* C4: every record returned has a metrics mapping with all 7 fixed metric
\* keys, also when the model supplied a metrics section with only some.
CE_C4_AllMetricKeys ==
    (Returns /\ out.kind = "record") =>
        /\ out.metrics.kind = "dict"
        /\ \A i \in 1..NumMetrics : out.metrics.items[i].present

\* C5: for every raw output that fails structured parsing, validate returns
\* a record with averageScore 0, a non-empty positioningSummary, the company
\* name equal to the competitor name passed in, all 7 metrics defaulted, all
\* analysis lists empty and a non-empty parse-failure marker in error.
Thm_C5_FallbackRecord ==
    (Returns /\ ParseFailed) =>
        /\ out.kind = "record"
        /\ out.average_score = 0
        /\ NonEmpty(out.positioning_summary)
        /\ out.company_info.name = competitor_name
        /\ out.metrics.kind = "dict"
        /\ \A i \in 1..NumMetrics :
              /\ out.metrics.items[i].present
              /\ out.metrics.items[i].isdict
              /\ out.metrics.items[i].hasScore
              /\ out.metrics.items[i].score = 5
              /\ out.metrics.items[i].description = "Ne oceneno"
        /\ out.company_info.unique_selling_points = <<>>
        /\ out.competitive_analysis.strengths = <<>>
        /\ out.competitive_analysis.weaknesses = <<>>
        /\ out.competitive_analysis.opportunities = <<>>
        /\ out.competitive_analysis.threats = <<>>
        /\ out.recommendations_for_user = <<>>
        /\ out.key_takeaways = <<>>
        /\ "error" \in out.keys
        /\ out.error # ""

\* a fenced reply with nothing inside the fence: the text left to parse is empty
Wit_C5_EmptyAfterStripping ==
    Returns /\ ParseFailed /\ raw = <<"F", "N", "F">> /\ out.kind = "record"

\* C6: when parsing fails, positioningSummary is exactly the first 500
\* characters of the raw output as passed to validate, before any
\* code-fence stripping, and the fixed placeholder only when that raw
\* output is empty.
CE_C6_SummaryIsRawPrefix ==
    (Returns /\ ParseFailed /\ out.kind = "record") =>
        out.positioning_summary =
            IF raw # <<>> THEN Txt(Slice(raw, 500)) ELSE Str("Otvet ne poluchen")

\* J wrapped in a code fence: an opening fence with or without the language
\* tag, J on the next line or on the same line, and no closing fence, a
\* closing fence on its own line, or one on the line of J
FencedForms ==
    {open \o sep \o <<"J">> \o close :
        open \in {<<"F">>, <<"F", "T">>},
        sep \in {<<>>, <<"N">>},
        close \in {<<>>, <<"N", "F">>, <<"F">>}}

\* the objects J may denote: the value json.loads returned, or any object
\* when the text was never parsed
ObjectsOfJ ==
    IF result = NoDoc THEN {d \in CoreDocs : d.kind = "object"}
    ELSE {d \in {result} : d.kind = "object"}

\* C7: for every text J that is a valid JSON object, validate of J wrapped
\* in a code fence (FencedForms) returns the same record as validate of J
\* alone.
CE_C7_FenceIsTransparent ==
    (Returns /\ raw \in FencedForms) =>
        \A d \in ObjectsOfJ : out = _parse_json_response(<<"J">>, competitor_name, d)

(***************************************************************************)
(* Claims about runBatch (the /parse operation), under SpecBatch.          *)
(***************************************************************************)
Done == bpc = "done"

\* the entries of the request with a non-empty URL
WithUrl == {k \in 1..Len(competitors) : competitors[k].url # ""}

\* the entries whose fetch returned success
FetchedOk ==
    {parsed_results[k].entry : k \in {n \in 1..Len(parsed_results) : parsed_results[n].success}}

\* C8 as stated: for every competitor list, the empty list and the lists of
\* empty URLs included, runBatch returns a report whose item count and
\* totalCompetitors equal the number of entries with a non-empty URL.
CE_C8_ReportForEveryList ==
    Done =>
        /\ response.report.present
        /\ Len(response.report.results) = Cardinality(WithUrl)
        /\ response.report.total_competitors = Cardinality(WithUrl)

\* C8 as amended: whenever runBatch returns a report, its item count and
\* totalCompetitors equal the number of entries with a non-empty URL, also
\* for a list whose entries all have empty URLs; for the empty list it
\* returns success=false with an error and no report.
Thm_C8_ReportCountsUrls ==
    Done =>
        /\ response.returned
        /\ response.success = response.report.present
        /\ response.report.present =>
              /\ Len(response.report.results) = Cardinality(WithUrl)
              /\ response.report.total_competitors = Cardinality(WithUrl)
        /\ competitors = <<>> =>
              ~response.success /\ response.error # "" /\ ~response.report.present

\* a report for a list that mixes entries with and without a URL
Wit_C8_MixedList ==
    /\ Done /\ response.report.present
    /\ WithUrl # {}
    /\ \E k \in 1..Len(competitors) : competitors[k].url = ""
    /\ Len(response.report.results) = Cardinality(WithUrl)

\* C9: in every report the items are in the same relative order as their
\* competitors in the request, whatever fetches and analyses failed.
Thm_C9_ItemsInInputOrder ==
    response.report.present =>
        /\ \A a, b \in 1..Len(response.report.results) :
              a < b => response.report.results[a].entry < response.report.results[b].entry
        /\ \A a \in 1..Len(response.report.results) :
              /\ response.report.results[a].entry \in WithUrl
              /\ response.report.results[a].url =
                    competitors[response.report.results[a].entry].url
              /\ response.report.results[a].name =
                    competitors[response.report.results[a].entry].name

\* a report of three items: a failed fetch, a failed analysis, an analysis
Wit_C9_MixedOutcomes ==
    /\ response.report.present
    /\ Len(response.report.results) = 3
    /\ ~response.report.results[1].parsing_success
    /\ response.report.results[2].analysis_error # ""
    /\ response.report.results[3].analysis.present

\* C10 as stated: for consecutive competitors A then B, the analysis of A
\* finishes before the fetch of B starts: no fetch of a later competitor
\* happens before the analysis of an earlier, successfully fetched one.
CE_C10_AnalysisBeforeNextFetch ==
    \A a, b \in 1..Len(competitors) :
        (a < b /\ b \in fetch_started /\ a \in FetchedOk) => a \in analysis_finished

\* C10 as amended: the fetches of all competitors run first, one after
\* another in list order, and every fetch has finished before the first
\* analysis starts; the analyses then run one after another in the same
\* order.
Thm_C10_FetchesThenAnalyses ==
    /\ \A a, b \in WithUrl : (a < b /\ b \in fetch_started) => a \in fetch_finished
    /\ analysis_started # {} => \A a \in WithUrl : a \in fetch_finished
    /\ analysis_started \subseteq FetchedOk
    /\ \A a, b \in FetchedOk : (a < b /\ b \in analysis_started) => a \in analysis_finished
    /\ fetch_finished \subseteq fetch_started
    /\ analysis_finished \subseteq analysis_started

\* two competitors fetched, the model call of the first in flight
Wit_C10_SecondFetchedBeforeFirstAnalysed ==
    /\ bpc = "analyzing"
    /\ Cardinality(FetchedOk) >= 2
    /\ Cardinality(analysis_started) = 1
    /\ analysis_finished = {}

\* the item is of a competitor whose analysis was begun and gave no record
AnalysisRaised(item) == item.entry \in analysis_finished /\ ~item.analysis.present

\* C11: when get_parsed_text or the model call raises for one item, the item
\* is kept with no analysis and with the text of the exception as its
\* analysis_error, the loop goes on to every later parsed result, and the
\* report holds them all; the exception of an item never fails the batch,
\* which returns success unless writing the report raises afterwards.
Thm_C11_FailedItemKept ==
    /\ idx > 0 =>
          /\ Len(analysis_results) = idx - 1
          /\ \A k \in 1..Len(analysis_results) :
                /\ analysis_results[k].entry = parsed_results[k].entry
                /\ AnalysisRaised(analysis_results[k]) =>
                      /\ analysis_results[k].analysis = NoAnalysis
                      /\ analysis_results[k].analysis_error # ""
                      /\ analysis_results[k].parsing_success
    /\ (Done /\ idx > 0) =>
          /\ Len(analysis_results) = Len(parsed_results)
          /\ FetchedOk \subseteq analysis_finished
          /\ response.success => response.report.results = analysis_results
          /\ ~response.success => response.error = "OSError"

\* a report whose first item failed in the model call and whose second item,
\* analysed after it, has its record
Wit_C11_LaterItemAnalysed ==
    /\ Done /\ response.success
    /\ Len(response.report.results) >= 2
    /\ response.report.results[1].analysis_error = "ModelCallError"
    /\ ~response.report.results[1].analysis.present
    /\ response.report.results[2].analysis.present

\* C12: in every report successful is the number of items whose fetch
\* succeeded, whether the analysis of the item gave a record, raised or was
\* skipped; so successful <= total_competitors, and an item with an
\* analysis_error counts.
Thm_C12_SuccessfulCountsFetches ==
    response.report.present =>
        /\ response.report.successful = Cardinality(FetchedOk)
        /\ response.report.successful =
              Cardinality({k \in 1..Len(response.report.results) :
                              response.report.results[k].parsing_success})
        /\ response.report.successful <= response.report.total_competitors

\* a report that counts an item with an analysis_error, beside a failed fetch
Wit_C12_FailedAnalysisCounted ==
    /\ response.report.present
    /\ response.report.successful = 1
    /\ response.report.total_competitors = 2
    /\ \E k \in 1..2 :
          /\ response.report.results[k].parsing_success
          /\ response.report.results[k].analysis_error # ""

(***************************************************************************)
(* Claims about fetchOne and fetchMany (parse_website, create_driver and   *)
(* parse_competitors_list), under SpecFetch.                               *)
(***************************************************************************)
\* parse_website is not running: before a call, between calls, after the last
BetweenFetches == fpc \in {"loop", "returned"}

\* the results parse_website has handed back, with the one it is about to
Outcomes ==
    {parsed_results[k] : k \in 1..Len(parsed_results)}
        \cup (IF fpc = "finally" THEN {fetch_result} ELSE {})

\* C13: every browser session parse_website starts is released before it
\* returns, on every exit path, the failure of the configuration in
\* create_driver after the browser process was started included: whenever
\* parse_website has returned, no browser process it started is running.
CE_C13_SessionReleased == BetweenFetches => browsers = 0

\* C14: a driver.quit() that raises is swallowed: parse_website returns the
\* result it built and no exception reaches the caller of fetchOne or of
\* fetchMany.
CE_C14_QuitFailureSwallowed == fpc # "raised" /\ fetch_raised = ""

\* C15: a navigation that raises is not recorded as a failure: the outcome
\* never carries its exception as the error, and whenever the extraction
\* steps after it complete, the outcome is success=true with no error and
\* with the extracted data.
Thm_C15_NavigationTimeoutTolerated ==
    \A r \in Outcomes :
        r.nav_timeout =>
            /\ r.error # "TimeoutException"
            /\ r.raised_in \in {"", "extract", "screenshot"}
            /\ r.raised_in = "" => (r.success /\ r.error = "" /\ r.data.extracted)
            /\ r.raised_in # "" => (~r.success /\ r.error # "" /\ r.data = EmptyData)

\* fetchMany has handed back an outcome with success=true whose navigation
\* had raised
Wit_C15_SuccessAfterTimeout ==
    /\ fpc = "returned"
    /\ \E k \in 1..Len(parsed_results) :
          /\ parsed_results[k].nav_timeout
          /\ parsed_results[k].success
          /\ parsed_results[k].error = ""

\* C16: when create_driver raises for one competitor, parse_website returns
\* an outcome with success=false, the error set and empty data, no exception
\* leaves it, and parse_competitors_list goes on: whenever it returns, it
\* holds one outcome for every entry with a URL, in order.
Thm_C16_NoSessionIsAnOutcome ==
    /\ \A r \in Outcomes :
          r.raised_in \in {"create", "configure"} =>
              /\ ~r.success
              /\ r.error # ""
              /\ r.data = EmptyData
    /\ (fpc = "finally" /\ fetch_result.raised_in \in {"create", "configure"}) =>
          driver = "none"
    /\ fpc = "raised" => fetch_result.raised_in \notin {"create", "configure"}
    /\ fpc = "returned" =>
          /\ {parsed_results[k].entry : k \in 1..Len(parsed_results)} = WithUrl
          /\ \A a, b \in 1..Len(parsed_results) :
                a < b => parsed_results[a].entry < parsed_results[b].entry

\* fetchMany has returned two outcomes: the first without a session, the
\* second fetched after it with success
Wit_C16_FetchAfterNoSession ==
    /\ fpc = "returned"
    /\ Len(parsed_results) = 2
    /\ parsed_results[1].raised_in = "create"
    /\ ~parsed_results[1].success
    /\ parsed_results[2].success

(***************************************************************************)
(* Claims about the operations of the server, under SpecApi, and about the *)
(* analysis client and /parse-single, under SpecAnalysis.                  *)
(***************************************************************************)
\* an endpoint has answered
Answered == bpc = "done" \/ (apc = "done" /\ op \in Endpoints)

\* the events of the observer's trace
Events == {trace[k] : k \in 1..Len(trace)}

\* an exception was raised by some step of the operation
SomeStepRaised ==
    \/ \E e \in Events : e[2] \in {"raise", "call_failed"}
    \/ \E k \in 1..Len(analysis_results) :
          analysis_results[k].analysis_error # "" \/ ~analysis_results[k].parsing_success

\* an exception the operation does not handle before its outer except: not
\* the failure parse_website records in its own result, and not the failure
\* of the image analysis that /parse-single answers with the text analysis
Unhandled(e) ==
    /\ e[2] = "raise"
    /\ e[1] # "fetch"
    /\ ~(op = "/parse-single" /\ e[1] = "image")

\* C17 as stated: each of /parse, /parse-single, /analyze-text and
\* /analyze-image returns a result object, and whenever a step inside it
\* raised (fetch, model call, validation, persistence, invalid input) the
\* object has success=false and a non-empty error.
CE_C17_EveryRaiseFailsTheOperation ==
    Answered =>
        /\ response.returned
        /\ SomeStepRaised => (~response.success /\ response.error # "")

\* C17 as amended: each of the four operations returns a result object and
\* no exception escapes it.  An exception that reaches the outer except of
\* the operation (invalid input, driver.quit, the text analysis, the write
\* of the upload, of the history entry or of the report) gives success=false
\* with a non-empty error; an exception handled inside leaves success=true:
\* a fetch failure is recorded as parsing_error, in /parse the failure of an
\* item's analysis is recorded as its analysis_error, and in /parse-single
\* the failure of the image analysis is answered by the text analysis.
Thm_C17_ResultObjectForEveryOutcome ==
    Answered =>
        /\ response.returned
        /\ response.success => response.error = ""
        /\ ~response.success => response.error # ""
        /\ apc = "done" => (response.success <=> \A e \in Events : ~Unhandled(e))
        /\ bpc = "done" =>
              /\ response.success = response.report.present
              /\ ~response.success =>
                    \/ competitors = <<>>
                    \/ driver = "lost"
                    \/ idx > Len(parsed_results)

\* /parse-single has answered success=false with the error of the text
\* analysis, called after the image analysis had raised
Wit_C17_FailureAfterFallback ==
    /\ Answered
    /\ op = "/parse-single"
    /\ <<"image", "raise">> \in Events
    /\ <<"text", "call_failed">> \in Events
    /\ ~response.success
    /\ response.error = "ModelCallError"

\* the places of an event in the trace
Places(e) == {k \in 1..Len(trace) : trace[k] = e}

\* C18: in /parse-single after a successful fetch, with a screenshot file
\* the image analysis is called first and the text analysis only after the
\* image analysis raised; without one the text analysis is called and the
\* image analysis never (the text analysis being get_parsed_text, which may
\* raise, and then analyze_text); analysis_type is "image" exactly when the
\* image analysis returned, and "text" otherwise.
Thm_C18_ImageFirstThenText ==
    (op = "/parse-single" /\ single_parsed.success) =>
        /\ <<"screenshot", "exists">> \in Events =>
              /\ (apc \in {"calling", "save", "done"} \/ mode = "text") =>
                    Places(<<"image", "enter">>) # {}
              /\ \A k \in Places(<<"text", "enter">>) :
                    \E n \in Places(<<"image", "raise">>) : n < k
        /\ <<"screenshot", "absent">> \in Events =>
              /\ \A e \in Events : e[1] # "image"
              /\ apc \in {"calling", "save", "done"} =>
                    (<<"text", "enter">> \in Events \/ <<"format", "raise">> \in Events)
        /\ Cardinality(Places(<<"image", "enter">>)) <= 1
        /\ Cardinality(Places(<<"text", "enter">>)) <= 1
        /\ single_result.analysis_type = "image" <=> <<"image", "return">> \in Events
        /\ single_result.analysis_type = "text" <=> <<"text", "return">> \in Events
        /\ single_result.analysis.present =>
              single_result.analysis_type = 
                  (IF <<"image", "return">> \in Events THEN "image" ELSE "text")
        /\ (apc = "done" /\ response.success) => single_result.analysis.present

\* /parse-single has answered with a text analysis made after the image
\* analysis of an existing screenshot had raised
Wit_C18_TextAfterImageRaised ==
    /\ op = "/parse-single" /\ apc = "done" /\ response.success
    /\ <<"screenshot", "exists">> \in Events
    /\ <<"image", "raise">> \in Events
    /\ single_result.analysis_type = "text"
    /\ single_result.analysis.present

\* C19: a model call that fails inside analyze_text or analyze_image leaves
\* the function as an exception, never as a record; the function returns
\* the fallback record only when the call returned a text that did not
\* parse.
Thm_C19_ModelFailurePropagates ==
    /\ \A k \in 1..Len(trace) :
          /\ trace[k][2] = "call_failed" =>
                (k < Len(trace) /\ trace[k + 1] = <<trace[k][1], "raise">>)
          /\ trace[k][2] = "return" =>
                (k > 1 /\ trace[k - 1] \in {<<trace[k][1], "reply_parsed">>,
                                           <<trace[k][1], "reply_unparsed">>})
    /\ (apc = "done" /\ op \in {"analyze_image", "analyze_text"}) =>
          /\ (\E e \in Events : e[2] = "call_failed") => a_out = Raise("ModelCallError")
          /\ (a_out.kind = "record" /\ a_out.error = ParseErrorMarker) <=>
                (\E e \in Events : e[2] = "reply_unparsed")

\* analyze_image has raised the exception of its model call
Wit_C19_ModelCallErrorRaised ==
    /\ op = "analyze_image" /\ apc = "done"
    /\ <<"image", "call_failed">> \in Events
    /\ a_out = Raise("ModelCallError")

\* C20: analyze_image called, with a configured key, on an image source
\* that is missing or is the empty path raises the image-not-found error
\* (FileNotFoundError of encode_image_to_base64) and has issued no model
\* call.
CE_C20_MissingOrEmptyImageNotFound ==
    (op = "analyze_image" /\ apc = "done" /\ api_key
        /\ image_path \in {"missing", "empty"}) =>
        /\ a_out = Raise("FileNotFoundError")
        /\ <<"image", "call">> \notin Events

(***************************************************************************)
(* Claims about the start of the process, under SpecStartup.               *)
(***************************************************************************)
\* C21: without the credential of the analysis model the failure is at the
\* start only: no server and no UI is started, and analyze_text and
\* analyze_image never raise the missing credential as the error of a call.
CE_C21_CredentialCheckedAtStartupOnly ==
    /\ ~api_key => process \in {"start", "exited"}
    /\ \A e \in Events : e[2] = "raise" => a_out # Raise("ValueError")

\* the results parse_website handed back for an entry of the request
FetchesOf(e) == {k \in 1..Len(parsed_results) : parsed_results[k].entry = e}

\* at most one fetch and one analysis an entry, at most one call a mode
NoneRepeated ==
    /\ \A e \in 1..Len(competitors) :
          /\ Cardinality(FetchesOf(e)) <= 1
          /\ Cardinality({k \in 1..Len(analysis_results) :
                             analysis_results[k].entry = e}) <= 1
    /\ Cardinality(Places(<<"image", "call">>)) <= 1
    /\ Cardinality(Places(<<"text", "call">>)) <= 1

\* C26: nothing is retried: when a batch has been answered each entry with
\* a URL has been fetched exactly once and analysed at most once, whatever
\* failed on the way, and /parse-single sends at most one call in the image
\* mode and at most one in the text mode.
CE_C26_EachUrlFetchedExactlyOnce ==
    /\ NoneRepeated
    /\ (bpc = "done" /\ competitors # <<>>) =>
           \A e \in WithUrl : e \in fetch_started


CarryScore(r) ==
    {k \in 1..NumMetrics :
        r.metrics.items[k].present /\ r.metrics.items[k].isdict
        /\ r.metrics.items[k].hasScore}

\* C25: the average of a record built from a parsed reply is the mean over
\* exactly the metric entries that carry a score, a score of 0 included and
\* keys without a score left out, rounded to 1 decimal: the scores 8, 6 and
\* 0 with all other keys absent give 4.7, and no scored entry gives 0.
Thm_C25_MeanOverScoredEntries ==
    (Returns /\ out.kind = "record" /\ ~ParseFailed) =>
        LET keys == CarryScore(out)
            n == Cardinality(keys)
            total == SumScores(out.metrics, keys)
            d == out.average_score * n - 10 * total
        IN  /\ n = 0 => out.average_score = 0
            /\ n > 0 => 2 * d <= n /\ 2 * d >= 0 - n
            /\ (n = 3 /\ {out.metrics.items[k].score : k \in keys} = {8, 6, 0})
                   => out.average_score = 47

\* a record with the scores 8 and 0 and a third key without a score: 4.0
Wit_C25_ZeroCountedKeyWithoutScoreIgnored ==
    /\ Returns /\ out.kind = "record" /\ ~ParseFailed
    /\ Cardinality(CarryScore(out)) = 2
    /\ {out.metrics.items[k].score : k \in CarryScore(out)} = {8, 0}
    /\ \E k \in 1..NumMetrics :
          out.metrics.items[k].present /\ k \notin CarryScore(out)
    /\ out.average_score = 40

(***************************************************************************)
(* Claims about the pure steps, under SpecExtract.                         *)
(***************************************************************************)
\* the formatted text has, in the section, a line that is not its header
Rendered(section) ==
    \E k \in 1..Len(text) :
        text[k].section = section /\ text[k].kind \in {"placeholder", "value", "item"}

\* C22: for every result, get_parsed_text returns a text in which each of
\* the six sections has a line of content or a placeholder line: the page
\* title and the meta description when absent, the headings, paragraphs,
\* CTA labels and navigation links when empty; no section is only a header.
CE_C22_PlaceholderInEverySection ==
    (xpc = "done" /\ text # <<>>) =>
        \A section \in {"page_title", "meta_description", "headings", "paragraphs",
                        "cta_buttons", "nav_links"} : Rendered(section)

\* C23: when no name is given the name is the host with only a leading
\* "www." removed; a host with "www." elsewhere is left unchanged.
CE_C23_OnlyLeadingWwwRemoved ==
    (xpc = "done" /\ netloc # <<>>) =>
        \/ name = <<"given">>
        \/ name = (IF Len(netloc) >= 4 /\ SubSeq(netloc, 1, 4) = <<"w", "w", "w", ".">>
                   THEN SubSeq(netloc, 5, Len(netloc))
                   ELSE netloc)

\* C24: the extracted paragraphs are, in document order, the first up to 10
\* among the elements whose trimmed text has at least 50 characters, each
\* cut to 500 characters.
CE_C24_FirstTenQualifyingParagraphs ==
    (xpc = "done" /\ elements # <<>>) =>
        LET kept == SelectSeq(elements, LAMBDA n : n >= ParagraphMinLen)
            first == SubSeq(kept, 1, IF Len(kept) < ParagraphElements THEN Len(kept)
                                     ELSE ParagraphElements)
        IN  paragraphs = [k \in 1..Len(first) |->
                             IF first[k] > ParagraphMaxLen THEN ParagraphMaxLen
                             ELSE first[k]]

(***************************************************************************)
(* Claims about /parse-single, under SpecAnalysis.                         *)
(***************************************************************************)
\* the reply to the image call of /parse-single could not be parsed
ImageReplyUnparsed == op = "/parse-single" /\ <<"image", "reply_unparsed">> \in Events

\* C28: in /parse-single, when the reply to the image call cannot be parsed
\* the text analysis is not tried: the item carries the fallback record
\* (the parse-failure error marker, average 0) as its analysis with the
\* analysis type "image", and the endpoint answers success (unless writing
\* the history entry raises).
Thm_C28_UnparsedImageReplyKept ==
    ImageReplyUnparsed =>
        /\ \A e \in Events : e[1] # "text"
        /\ single_result.analysis =
              [present |-> TRUE, average_score |-> 0, error |-> ParseErrorMarker]
        /\ single_result.analysis_type = "image"
        /\ apc = "done" => (response.success \/ <<"save", "raise">> \in Events)

\* answered with success after an image reply that could not be parsed
Wit_C28_FallbackRecordOfImage ==
    /\ ImageReplyUnparsed
    /\ apc = "done"
    /\ response.success
    /\ single_result.analysis.error = ParseErrorMarker
    /\ single_result.analysis_type = "image"

(***************************************************************************)
(* Claims about the browser sessions of a batch, under SpecFetch.          *)
(***************************************************************************)
\* C27: within one batch run at most one browser session is live at any
\* moment: the session of an entry has been released before the session of
\* the next entry is created.
CE_C27_AtMostOneSessionLive == browsers <= 1

(***************************************************************************)
(* Claims about the desktop window, under SpecUi and SpecUiFair.           *)
(***************************************************************************)
\* the workers whose run() has not returned
Running == {w \in 1..Len(workers) : isRunning(w)}

\* the state a start request must leave alone
StartState == <<workers, signal_queue, loading, btn_parse, btn_load_files, btn_clear>>

\* C29: at most one analysis worker is running at any time, and a start
\* request (start analysis confirmed, files chosen) made while a worker is
\* running starts no worker and leaves the running worker and the loading
\* state as they are.
Thm_C29_OneWorkerAtATime ==
    /\ [](Cardinality(Running) <= 1)
    /\ [][(Running # {} /\ (StartAnalysis \/ LoadFiles)) => UNCHANGED StartState]_vars

\* a start request was turned away while the worker was running
Wit_C29_StartRefusedWhileRunning ==
    /\ message = "busy"
    /\ Cardinality(Running) = 1
    /\ loading

\* every worker past its emit has emitted one signal, the others none
OneSignalEach ==
    \A w \in 1..Len(workers) :
        workers[w].emitted = (IF workers[w].wpc \in {"emitted", "returned"} THEN 1 ELSE 0)

\* loading is off and the start controls are as the list allows
Cleared ==
    /\ ~loading
    /\ btn_load_files
    /\ btn_parse = (competitor_count > 0)

\* C30: a started worker emits exactly one of finished and error on every
\* path of run(), so that after a worker was started the loading state is
\* eventually cleared and the start controls enabled again ("start
\* analysis" when the list is not empty).
Thm_C30_OneSignalThenCleared ==
    /\ []OneSignalEach
    /\ (loading ~> Cleared)

\* a worker that timed out has returned, its error was handled
Wit_C30_TimeoutHandled ==
    /\ \E w \in 1..Len(workers) :
          workers[w].path = "timeout" /\ workers[w].wpc = "returned"
    /\ signal_queue = <<>>
    /\ message = "error"
    /\ Cleared

====
